---- MODULE Spec2Model ----
(***************************************************************************)
(* Sprite-Slicer: the grid geometry and the auto-detect heuristic          *)
(* (grid.ts), the tile extraction engine and the contact sheet             *)
(* (slicer.ts), the archive writer (zipper.ts) and the handlers of the UI  *)
(* (ui.ts) as state machines.                                              *)
(*                                                                         *)
(* Numbers are the integers the UI produces with parseInt (ui.ts:314-325). *)
(* A canvas or image is a record [width, height, data]; data maps the      *)
(* pixel <<x, y>> to its alpha byte, the only channel the code inspects.   *)
(***************************************************************************)
EXTENDS Integers, Sequences, FiniteSets, TLC

(***************************************************************************)
(* Bounds of the model.                                                    *)
(***************************************************************************)
MaxTile == 2      \* largest tileWidth / tileHeight drawn
MaxGap == 1       \* largest margin / spacing / offsetX / offsetY drawn
MaxDim == 5       \* largest raster width / height of the geometry runs
MaxPixW == 3      \* largest raster width of the slicing runs
MaxPixH == 2      \* largest raster height of the slicing runs
MaxMarks == 1     \* most pixels of a drawn raster that differ from its background
MaxPad == 1       \* largest preservePadding drawn
MaxGridArg == 2   \* largest rows / cols of a caller-supplied GridInfo
MaxCanvas == 3    \* largest width / height of a canvas handed to the trim alone
MaxSheetTiles == 4 \* most tiles handed to createContactSheet alone
MaxColumns == 2   \* largest columns handed to createContactSheet alone
MaxCoord == 11    \* largest row / col of a tile handed to generateFilename alone
MaxIndex == 12    \* largest index of a tile handed to generateFilename alone

VARIABLES
  settings,       \* the TileSettings (types.d.ts:1-10) handed to the operation
  image,          \* the source raster handed to the operation: [width, height, data]
  imageMetadata,  \* the ImageMetadata (types.d.ts:12-16) handed to it: [width, height]
  gridInfo,       \* GridInfo (types.d.ts:18-22) returned by calculateGrid
  errors,         \* string[] returned by validateSettings
  calls,          \* the operations called so far (in the UI: by the last export request)
  pc,             \* where the running operation stands
  tiles,          \* sliceSprite's tiles: TileData[] (types.d.ts:31-37)
  row,            \* sliceSprite's outer loop variable
  col,            \* sliceSprite's inner loop variable
  current,        \* sliceSprite's count of extracted tiles
  progress,       \* the ExportProgress events handed to onProgress
  yields,         \* the setTimeout(0) suspensions of the run: [loop, current]
  sliceArgs,      \* <<>>, else <<[image, settings]>> sliceSprite was called with
  trimCanvas,     \* the canvas handed to trimTransparentEdges
  trimPadding,    \* the padding handed to trimTransparentEdges
  trimmed,        \* the results of trimTransparentEdges, each applied to the last
  detectSize,     \* the candidate size handed to tryDetectGrid
  detected,       \* what tryDetectGrid returned: <<>> for null, else <<settings>>
  autoDetected,   \* what autoDetectTileSize returned: <<>> for null, else <<settings>>
  exportSettings, \* the ExportSettings (types.d.ts:24-29) handed to the operation
  filename,       \* what generateFilename returned, a sequence of characters
  columns,        \* createContactSheet's columns argument
  contactSheet,   \* <<>> for undefined, else <<the sheet createContactSheet returned>>
  validTiles,     \* exportTiles' validTiles
  zipTotal,       \* exportTiles' total
  zipCurrent,     \* exportTiles' current
  zip,            \* the JSZip archive exportTiles builds
  currentImage,   \* UI.currentImage (ui.ts:14); NullImage for null
  currentImageMetadata, \* UI.currentImageMetadata (ui.ts:15); NullMetadata for null
  currentSettings,      \* UI.currentSettings (ui.ts:16)
  currentExportSettings, \* UI.currentExportSettings (ui.ts:17)
  status,         \* the status element, as showStatus left it
  exportBtn,      \* the export button: [disabled, textContent, inControls]
  progressContainer, \* style.display of the progress container
  controlsDisabled   \* the disabled flag enableControls writes to the controls

inputVars == <<settings, image, imageMetadata>>
gridVars == <<gridInfo, errors, calls>>
sliceVars == <<pc, tiles, row, col, current, progress, yields, sliceArgs, yields, sliceArgs>>
trimVars == <<trimCanvas, trimPadding, trimmed>>
detectVars == <<detectSize, detected, autoDetected>>
exportVars == <<exportSettings, filename, columns, contactSheet, validTiles, zipTotal,
                zipCurrent, zip>>
uiVars == <<currentImage, currentImageMetadata, currentSettings, currentExportSettings,
            status, exportBtn, progressContainer, controlsDisabled>>
vars == <<inputVars, gridVars, sliceVars, trimVars, detectVars, exportVars, uiVars>>

(***************************************************************************)
(* Helpers.                                                                *)
(***************************************************************************)
Max(a, b) == IF a >= b THEN a ELSE b
Min(a, b) == IF a <= b THEN a ELSE b

\* Math.floor(a / b) for integers a and b # 0.
FloorDiv(a, b) == IF b > 0 THEN a \div b ELSE (0 - a) \div (0 - b)

Pixels(w, h) == (0 .. (w - 1)) \X (0 .. (h - 1))

\* A raster whose every pixel has alpha a.
Blank(w, h, a) == [width |-> w, height |-> h, data |-> [p \in Pixels(w, h) |-> a]]

\* ImageLoader.getImageMetadata: the dimensions of the decoded image.
getImageMetadata(img) == [width |-> img.width, height |-> img.height]

\* null in the place of an image or of its metadata: a decoded image has pixels.
NullImage == [width |-> 0, height |-> 0, data |-> <<>>]
NullMetadata == [width |-> 0, height |-> 0]

\* A percentage is the fraction num / den: (current / total) * 100 and the
\* literal 100.
Percentage(cur, total) == [num |-> cur * 100, den |-> total]
Hundred == [num |-> 100, den |-> 1]

MkSettings(tw, th, m, s, ox, oy, trim, pad) ==
  [tileWidth |-> tw, tileHeight |-> th, margin |-> m, spacing |-> s,
   offsetX |-> ox, offsetY |-> oy, trimTransparent |-> trim, preservePadding |-> pad]

\* The SliceSettings invariant of the data model: sizes > 0, the rest >= 0.
ValidSettings(s) ==
  /\ s.tileWidth > 0 /\ s.tileHeight > 0
  /\ s.margin >= 0 /\ s.spacing >= 0 /\ s.offsetX >= 0 /\ s.offsetY >= 0

(***************************************************************************)
(* GridCalculator (grid.ts).                                               *)
(***************************************************************************)
\* Mutation of availableWidth: the first-tile offset is not subtracted.
availableWidthNoOffset(s, meta) == meta.width - s.margin * 2

availableWidth(s, meta) == meta.width - s.margin * 2 - s.offsetX
availableHeight(s, meta) == meta.height - s.margin * 2 - s.offsetY

\* Mutation of gridCols: the spacing after the last tile is not added back.
gridColsNoSlack(s, meta) == FloorDiv(availableWidth(s, meta), s.tileWidth + s.spacing)

gridCols(s, meta) == FloorDiv(availableWidth(s, meta) + s.spacing, s.tileWidth + s.spacing)
gridRows(s, meta) == FloorDiv(availableHeight(s, meta) + s.spacing, s.tileHeight + s.spacing)

calculateGrid(s, meta) ==
  LET cols == gridCols(s, meta)
      rows == gridRows(s, meta)
  IN [rows |-> Max(0, rows), cols |-> Max(0, cols), totalTiles |-> Max(0, rows * cols)]

minRequiredWidth(s) == s.margin * 2 + s.offsetX + s.tileWidth
minRequiredHeight(s) == s.margin * 2 + s.offsetY + s.tileHeight

\* A message is a tuple: its fixed text, then the numbers interpolated into it.
MsgTileWidth == <<"Tile width must be greater than 0">>
MsgTileHeight == <<"Tile height must be greater than 0">>
MsgMargin == <<"Margin cannot be negative">>
MsgSpacing == <<"Spacing cannot be negative">>
MsgOffsetX == <<"Offset X cannot be negative">>
MsgOffsetY == <<"Offset Y cannot be negative">>
MsgWidth(w, req) == <<"Image width is too small for current settings", w, req>>
MsgHeight(h, req) == <<"Image height is too small for current settings", h, req>>

PushIf(cond, seq, msg) == IF cond THEN Append(seq, msg) ELSE seq

\* Mutation of validateSettings: the checks short-circuit (an else-if chain).
validateSettingsFirstOnly(s, meta) ==
  IF s.tileWidth <= 0 THEN <<MsgTileWidth>>
  ELSE IF s.tileHeight <= 0 THEN <<MsgTileHeight>>
  ELSE IF s.margin < 0 THEN <<MsgMargin>>
  ELSE IF s.spacing < 0 THEN <<MsgSpacing>>
  ELSE IF s.offsetX < 0 THEN <<MsgOffsetX>>
  ELSE IF s.offsetY < 0 THEN <<MsgOffsetY>>
  ELSE IF meta.width < minRequiredWidth(s)
    THEN <<MsgWidth(meta.width, minRequiredWidth(s))>>
  ELSE IF meta.height < minRequiredHeight(s)
    THEN <<MsgHeight(meta.height, minRequiredHeight(s))>>
  ELSE <<>>

validateSettings(s, meta) ==
  LET e1 == PushIf(s.tileWidth <= 0, <<>>, MsgTileWidth)
      e2 == PushIf(s.tileHeight <= 0, e1, MsgTileHeight)
      e3 == PushIf(s.margin < 0, e2, MsgMargin)
      e4 == PushIf(s.spacing < 0, e3, MsgSpacing)
      e5 == PushIf(s.offsetX < 0, e4, MsgOffsetX)
      e6 == PushIf(s.offsetY < 0, e5, MsgOffsetY)
      e7 == PushIf(meta.width < minRequiredWidth(s), e6,
                   MsgWidth(meta.width, minRequiredWidth(s)))
      e8 == PushIf(meta.height < minRequiredHeight(s), e7,
                   MsgHeight(meta.height, minRequiredHeight(s)))
  IN e8

(***************************************************************************)
(* SpriteSlicer (slicer.ts).                                               *)
(***************************************************************************)
MinOf(S) == CHOOSE m \in S : \A x \in S : m <= x
MaxOf(S) == CHOOSE m \in S : \A x \in S : m >= x

\* The alpha of pixel (x, y) of a raster; a pixel outside it reads as
\* transparent, as drawImage clips the source rectangle to the source.
AlphaAt(img, x, y) ==
  IF x >= 0 /\ x < img.width /\ y >= 0 /\ y < img.height THEN img.data[<<x, y>>] ELSE 0

\* A new w x h canvas after ctx.drawImage(src, sx, sy, w, h, 0, 0, w, h).
DrawImage(src, sx, sy, w, h) ==
  [width |-> w, height |-> h,
   data |-> [p \in Pixels(w, h) |-> AlphaAt(src, sx + p[1], sy + p[2])]]

\* extractTile's source rectangle origin (slicer.ts:56-57).
sourceX(s, c) == s.margin + s.offsetX + c * (s.tileWidth + s.spacing)
sourceY(s, r) == s.margin + s.offsetY + r * (s.tileHeight + s.spacing)

\* Mutation of tileCanvasOf: row and column are swapped.
tileCanvasSwapped(img, s, r, c) ==
  DrawImage(img, sourceX(s, r), sourceY(s, c), s.tileWidth, s.tileHeight)

\* The canvas extractTile draws the cell (r, c) into (slicer.ts:56-71).
tileCanvasOf(img, s, r, c) ==
  DrawImage(img, sourceX(s, c), sourceY(s, r), s.tileWidth, s.tileHeight)

\* The scan of trimTransparentEdges: the bounding box of the pixels with
\* alpha > 0, from minX = width, minY = height, maxX = maxY = -1.
boundingBox(canvas) ==
  LET opaque == {p \in Pixels(canvas.width, canvas.height) : canvas.data[p] > 0}
  IN [minX |-> MinOf({p[1] : p \in opaque} \cup {canvas.width}),
      minY |-> MinOf({p[2] : p \in opaque} \cup {canvas.height}),
      maxX |-> MaxOf({p[1] : p \in opaque} \cup {-1}),
      maxY |-> MaxOf({p[2] : p \in opaque} \cup {-1})]

\* Mutation of paddedBox: the padded box is not clamped to the far edges.
paddedBoxUnclamped(canvas, box, padding) ==
  [minX |-> Max(0, box.minX - padding),
   minY |-> Max(0, box.minY - padding),
   maxX |-> box.maxX + padding,
   maxY |-> box.maxY + padding]

\* The box grown by the padding and clamped to the canvas.
paddedBox(canvas, box, padding) ==
  [minX |-> Max(0, box.minX - padding),
   minY |-> Max(0, box.minY - padding),
   maxX |-> Min(canvas.width - 1, box.maxX + padding),
   maxY |-> Min(canvas.height - 1, box.maxY + padding)]

\* Mutation of trimmedWidth: the inclusive bound is not counted.
trimmedWidthShort(box) == box.maxX - box.minX

trimmedWidth(box) == box.maxX - box.minX + 1
trimmedHeight(box) == box.maxY - box.minY + 1

trimTransparentEdges(canvas, padding) ==
  LET found == boundingBox(canvas)
  IN IF found.maxX = -1
       THEN [canvas |-> Blank(1, 1, 0), isEmpty |-> TRUE]
       ELSE LET box == paddedBox(canvas, found, padding)
            IN [canvas |-> DrawImage(canvas, box.minX, box.minY,
                                     trimmedWidth(box), trimmedHeight(box)),
                isEmpty |-> FALSE]

\* Mutation of isCanvasEmpty: the scan starts one pixel late.
isCanvasEmptySkipFirst(canvas) ==
  \A p \in Pixels(canvas.width, canvas.height) \ {<<0, 0>>} : ~(canvas.data[p] > 0)

isCanvasEmpty(canvas) ==
  \A p \in Pixels(canvas.width, canvas.height) : ~(canvas.data[p] > 0)

\* Mutation of indexCols: the count is taken from the raster's height.
indexColsFromHeight(img, s) ==
  IF s.tileWidth > 0
    THEN FloorDiv(img.height - s.margin * 2 - s.offsetX + s.spacing, s.tileWidth + s.spacing)
    ELSE 1

\* The column count extractTile recomputes for the index (slicer.ts:88).
indexCols(img, s) ==
  IF s.tileWidth > 0
    THEN FloorDiv(img.width - s.margin * 2 - s.offsetX + s.spacing, s.tileWidth + s.spacing)
    ELSE 1

extractTile(img, s, r, c) ==
  LET tileCanvas == tileCanvasOf(img, s, r, c)
      trimResult == trimTransparentEdges(tileCanvas, s.preservePadding)
  IN [canvas |-> IF s.trimTransparent THEN trimResult.canvas ELSE tileCanvas,
      row |-> r,
      col |-> c,
      index |-> r * indexCols(img, s) + c,
      isEmpty |-> IF s.trimTransparent THEN trimResult.isEmpty
                  ELSE isCanvasEmpty(tileCanvas)]

\* Mutation of sliceProgressEvent: the count is reported before it is advanced.
sliceProgressEventStale(cur, total) ==
  [current |-> cur - 1, total |-> total, percentage |-> Percentage(cur - 1, total)]

\* The event sliceSprite hands to onProgress (slicer.ts:29-34).
sliceProgressEvent(cur, total) ==
  [current |-> cur, total |-> total, percentage |-> Percentage(cur, total)]

\* Mutation of sliceYields: the loop suspends after every 20th tile.
sliceYieldsEvery20(cur) == cur % 20 = 0

\* sliceSprite suspends on setTimeout(0) after this tile (slicer.ts:39).
sliceYields(cur) == cur % 10 = 0

\* exportTiles suspends on setTimeout(0) after this tile (zipper.ts:45).
zipYields(cur) == cur % 5 = 0

\* The suspensions so far, and one more when the loop suspends now.
Suspend(suspends, loop, cur) ==
  IF suspends THEN Append(yields, [loop |-> loop, current |-> cur]) ELSE yields

(***************************************************************************)
(* SpriteSlicer.createContactSheet (slicer.ts:160-201).  The sheet is its  *)
(* size and the rectangles the tiles are drawn into, in drawing order.     *)
(***************************************************************************)
NotEmpty(tile) == ~tile.isEmpty

\* Math.ceil(n / d) for n >= 0 and d > 0.
CeilDiv(n, d) == (n + d - 1) \div d

\* One iteration of validTiles.forEach (slicer.ts:186-192), index counted from 0.
sheetPlacement(tile, index, cols, maxTileWidth, maxTileHeight) ==
  [x |-> (index % cols) * maxTileWidth,
   y |-> (index \div cols) * maxTileHeight,
   width |-> tile.canvas.width, height |-> tile.canvas.height, index |-> tile.index]

\* Mutation of createContactSheet: the empty tiles are laid out too.
createContactSheetUnfiltered(tileSeq, cols) ==
  IF Len(tileSeq) = 0 THEN [width |-> 1, height |-> 1, placed |-> <<>>]
  ELSE LET maxTileWidth == MaxOf({tileSeq[k].canvas.width : k \in 1 .. Len(tileSeq)})
           maxTileHeight == MaxOf({tileSeq[k].canvas.height : k \in 1 .. Len(tileSeq)})
       IN [width |-> cols * maxTileWidth,
           height |-> CeilDiv(Len(tileSeq), cols) * maxTileHeight,
           placed |-> [k \in 1 .. Len(tileSeq) |->
                        sheetPlacement(tileSeq[k], k - 1, cols, maxTileWidth, maxTileHeight)]]

createContactSheet(tileSeq, cols) ==
  LET valid == SelectSeq(tileSeq, NotEmpty)
  IN IF Len(valid) = 0 THEN [width |-> 1, height |-> 1, placed |-> <<>>]
     ELSE LET maxTileWidth == MaxOf({valid[k].canvas.width : k \in 1 .. Len(valid)})
              maxTileHeight == MaxOf({valid[k].canvas.height : k \in 1 .. Len(valid)})
              sheetRows == CeilDiv(Len(valid), cols)
          IN [width |-> cols * maxTileWidth,
              height |-> sheetRows * maxTileHeight,
              placed |-> [k \in 1 .. Len(valid) |->
                           sheetPlacement(valid[k], k - 1, cols, maxTileWidth, maxTileHeight)]]

(***************************************************************************)
(* GridCalculator.tryDetectGrid (grid.ts:68-126).                          *)
(***************************************************************************)
\* The candidate sizes of autoDetectTileSize, in the order tried (grid.ts:56).
commonSizes == <<16, 24, 32, 48, 64, 96, 128>>

\* The positions 0, 10, 20, ... below n, which the scans sample (grid.ts:86, 102).
Sampled(n) == {k \in 0 .. (n - 1) : k % 10 = 0}

\* The vertical line at x is consistent: no sampled pixel has alpha > 128.
verticalConsistent(imageData, x) ==
  \A y \in Sampled(imageData.height) : ~(imageData.data[<<x, y>>] > 128)

horizontalConsistent(imageData, y) ==
  \A x \in Sampled(imageData.width) : ~(imageData.data[<<x, y>>] > 128)

consistentVertical(imageData, tileWidth) ==
  Cardinality({c \in 1 .. ((imageData.width \div tileWidth) - 1) :
                 /\ c * tileWidth < imageData.width
                 /\ verticalConsistent(imageData, c * tileWidth)})

consistentHorizontal(imageData, tileHeight) ==
  Cardinality({r \in 1 .. ((imageData.height \div tileHeight) - 1) :
                 /\ r * tileHeight < imageData.height
                 /\ horizontalConsistent(imageData, r * tileHeight)})

\* count >= n * 0.7, on integers (exact for the n of this model).
AtLeast70Percent(count, n) == count * 10 >= n * 7

\* null is <<>>; a detection is the one-element sequence of its settings.
tryDetectGrid(imageData, tileWidth, tileHeight) ==
  LET cols == imageData.width \div tileWidth
      rows == imageData.height \div tileHeight
  IN IF cols < 2 \/ rows < 2 THEN <<>>
     ELSE IF /\ AtLeast70Percent(consistentVertical(imageData, tileWidth), cols)
             /\ AtLeast70Percent(consistentHorizontal(imageData, tileHeight), rows)
       THEN << [tileWidth |-> tileWidth, tileHeight |-> tileHeight, margin |-> 0,
                spacing |-> 0, offsetX |-> 0, offsetY |-> 0] >>
       ELSE <<>>

(***************************************************************************)
(* GridCalculator.autoDetectTileSize (grid.ts:46-66).                      *)
(***************************************************************************)
\* The for loop from the i-th candidate on: the first detection is returned,
\* null (<<>>) when the candidates run out (grid.ts:58-65).
RECURSIVE autoDetectFrom(_, _)
autoDetectFrom(imageData, i) ==
  IF i > Len(commonSizes) THEN <<>>
  ELSE LET size == commonSizes[i]
           found == tryDetectGrid(imageData, size, size)
       IN IF found # <<>> THEN found ELSE autoDetectFrom(imageData, i + 1)

\* Mutation of autoDetectTileSize: the last candidate that detects wins.
autoDetectTileSizeLastWins(img) ==
  LET hits == {i \in 1 .. Len(commonSizes) :
                 tryDetectGrid(img, commonSizes[i], commonSizes[i]) # <<>>}
  IN IF hits = {} THEN <<>>
     ELSE LET i == CHOOSE j \in hits : \A k \in hits : k <= j
          IN tryDetectGrid(img, commonSizes[i], commonSizes[i])

\* The image data read back from the canvas is the image (grid.ts:47-53).
autoDetectTileSize(img) == autoDetectFrom(img, 1)

(***************************************************************************)
(* ZipExporter.generateFilename (zipper.ts:117-130).  A string is the      *)
(* sequence of its characters.                                             *)
(***************************************************************************)
Digits == <<"0", "1", "2", "3", "4", "5", "6", "7", "8", "9">>

\* `${n}` for an integer n: its decimal digits, "-" first when negative.
RECURSIVE toString(_)
toString(n) ==
  IF n < 0 THEN <<"-">> \o toString(0 - n)
  ELSE IF n < 10 THEN << Digits[n + 1] >>
  ELSE toString(n \div 10) \o << Digits[(n % 10) + 1] >>

PngSuffix == <<".", "p", "n", "g">>

\* Mutation of generateFilename: row and col change places.
generateFilenameColRow(tile, es) ==
  CASE es.namingPattern = "index" -> toString(tile.index) \o PngSuffix
    [] es.namingPattern = "custom" ->
         es.customPrefix \o toString(tile.col) \o <<"_">> \o toString(tile.row) \o PngSuffix
    [] OTHER -> toString(tile.col) \o <<"_">> \o toString(tile.row) \o PngSuffix

generateFilename(tile, es) ==
  CASE es.namingPattern = "row_col" ->
         toString(tile.row) \o <<"_">> \o toString(tile.col) \o PngSuffix
    [] es.namingPattern = "index" -> toString(tile.index) \o PngSuffix
    [] es.namingPattern = "custom" ->
         es.customPrefix \o toString(tile.row) \o <<"_">> \o toString(tile.col) \o PngSuffix
    [] OTHER -> toString(tile.row) \o <<"_">> \o toString(tile.col) \o PngSuffix

(***************************************************************************)
(* ZipExporter.exportTiles (zipper.ts:6-115).                              *)
(***************************************************************************)
\* Mutation of zipValidTiles: skipTransparent is not honoured.
zipValidTilesAll(tileSeq, es) == tileSeq

\* validTiles (zipper.ts:17-19).
zipValidTiles(tileSeq, es) ==
  IF es.skipTransparent THEN SelectSeq(tileSeq, NotEmpty) ELSE tileSeq

\* total (zipper.ts:21); sheet is <<>> for an absent contactSheet argument.
zipTotalOf(valid, sheet) == Len(valid) + (IF sheet # <<>> THEN 1 ELSE 0) + 1

\* JSZip's file(name, data): a file of that name is replaced, else one is added.
AddFile(files, name, data) ==
  IF \E i \in 1 .. Len(files) : files[i].name = name
    THEN [i \in 1 .. Len(files) |->
            IF files[i].name = name THEN [name |-> name, data |-> data] ELSE files[i]]
    ELSE Append(files, [name |-> name, data |-> data])

\* The object written to meta.json (zipper.ts:70-98), without its timestamp.
zipMetadata(tileSeq, valid, s, es, meta) ==
  [settings |-> s,
   export |-> es,
   source |-> meta,
   result |-> [totalTiles |-> Len(tileSeq), exportedTiles |-> Len(valid),
               skippedTiles |-> Len(tileSeq) - Len(valid)]]

(***************************************************************************)
(* Geometry runs: calculateGrid and validateSettings applied to drawn      *)
(* settings (valid or not) and raster dimensions.                          *)
(***************************************************************************)
NoGrid == [rows |-> 0, cols |-> 0, totalTiles |-> 0]

GridIdle ==
  /\ gridInfo = NoGrid
  /\ errors = <<>>
  /\ calls = {}

TrimIdle ==
  /\ trimCanvas = Blank(1, 1, 0)
  /\ trimPadding = 0
  /\ trimmed = <<>>

DetectIdle ==
  /\ detectSize = 0
  /\ detected = <<>>
  /\ autoDetected = <<>>

\* The settings the UI starts with (ui.ts:41-50).
DefaultSettings == MkSettings(32, 32, 0, 0, 0, 0, FALSE, 0)

\* The export settings the UI starts with (ui.ts:52-57).
DefaultExportSettings ==
  [namingPattern |-> "row_col", customPrefix |-> <<>>, skipTransparent |-> FALSE,
   includeContactSheet |-> FALSE]

\* new JSZip(): no file in tiles/, no contact sheet, no meta.json.
EmptyZip == [tiles |-> <<>>, contactSheet |-> FALSE, meta |-> <<>>]

ExportIdle ==
  /\ exportSettings = DefaultExportSettings
  /\ filename = <<>>
  /\ columns = 10
  /\ contactSheet = <<>>
  /\ validTiles = <<>>
  /\ zipTotal = 0
  /\ zipCurrent = 0
  /\ zip = EmptyZip

UiIdle ==
  /\ currentImage = NullImage
  /\ currentImageMetadata = NullMetadata
  /\ currentSettings = DefaultSettings
  /\ currentExportSettings = DefaultExportSettings
  /\ status = [message |-> "", type |-> "info"]
  /\ exportBtn = [disabled |-> FALSE, textContent |-> "Export ZIP", inControls |-> TRUE]
  /\ progressContainer = "none"
  /\ controlsDisabled = FALSE

\* No slicing run has started.
SliceIdle ==
  /\ pc = "idle"
  /\ tiles = <<>>
  /\ row = 0
  /\ col = 0
  /\ current = 0
  /\ progress = <<>>
  /\ yields = <<>>
  /\ sliceArgs = <<>>

GridSettings ==
  { MkSettings(tw, th, m, s, ox, oy, FALSE, 0) :
      tw \in -1 .. MaxTile, th \in -1 .. MaxTile,
      m \in -1 .. MaxGap, s \in -1 .. MaxGap,
      ox \in -1 .. MaxGap, oy \in -1 .. MaxGap }

\* The concrete scenarios of the specification's section 8.
ScenarioGrid ==
  { [s |-> MkSettings(20, 10, 0, 0, 0, 0, FALSE, 0), w |-> 10, h |-> 10],
    [s |-> MkSettings(32, 32, 0, 0, 0, 0, FALSE, 0), w |-> 64, h |-> 64] }

InitGrid ==
  /\ \/ \E s \in GridSettings, w \in 1 .. MaxDim, h \in 1 .. MaxDim :
          /\ settings = s
          /\ image = Blank(w, h, 255)
     \/ \E sc \in ScenarioGrid :
          /\ settings = sc.s
          /\ image = Blank(sc.w, sc.h, 255)
  /\ imageMetadata = getImageMetadata(image)
  /\ GridIdle
  /\ SliceIdle
  /\ TrimIdle
  /\ DetectIdle
  /\ ExportIdle
  /\ UiIdle

\* Division by zero leaves the integers (Infinity, NaN): calculateGrid is
\* applied where the quotients are numbers.
CalculateGrid ==
  /\ "calculateGrid" \notin calls
  /\ settings.tileWidth + settings.spacing # 0
  /\ settings.tileHeight + settings.spacing # 0
  /\ gridInfo' = calculateGrid(settings, imageMetadata)
  /\ calls' = calls \cup {"calculateGrid"}
  /\ UNCHANGED <<inputVars, errors, sliceVars, trimVars, detectVars, exportVars, uiVars>>

ValidateSettings ==
  /\ "validateSettings" \notin calls
  /\ errors' = validateSettings(settings, imageMetadata)
  /\ calls' = calls \cup {"validateSettings"}
  /\ UNCHANGED <<inputVars, gridInfo, sliceVars, trimVars, detectVars, exportVars, uiVars>>

NextGrid == CalculateGrid \/ ValidateSettings

SpecGrid == InitGrid /\ [][NextGrid]_vars

(***************************************************************************)
(* Slicing runs: sliceSprite (slicer.ts:8-46), one action per iteration of *)
(* its loop.                                                               *)
(***************************************************************************)
\* A raster of background alpha bg whose pixels in marks have alpha fg.
Painted(w, h, bg, fg, marks) ==
  [width |-> w, height |-> h,
   data |-> [p \in Pixels(w, h) |-> IF p \in marks THEN fg ELSE bg]]

\* <<background alpha, alpha of the marked pixels>>
AlphaPairs == { <<0, 1>>, <<255, 0>> }

MarkSets(w, h) == {m \in SUBSET Pixels(w, h) : Cardinality(m) <= MaxMarks}

TrimChoices ==
  { [trim |-> FALSE, pad |-> 0] } \cup { [trim |-> TRUE, pad |-> p] : p \in 0 .. MaxPad }

\* Settings that satisfy the SliceSettings invariant.
SliceSettings ==
  { MkSettings(tw, th, m, s, ox, oy, tc.trim, tc.pad) :
      tw \in 1 .. MaxTile, th \in 1 .. MaxTile,
      m \in 0 .. MaxGap, s \in 0 .. MaxGap,
      ox \in 0 .. MaxGap, oy \in 0 .. MaxGap, tc \in TrimChoices }

GridArgs ==
  { [rows |-> r, cols |-> c, totalTiles |-> r * c] :
      r \in 0 .. MaxGridArg, c \in 0 .. MaxGridArg }

\* The scenario of section 8: a 64x64 raster cut into 32x32 tiles.
Scenario64 == [s |-> MkSettings(32, 32, 0, 0, 0, 0, FALSE, 0), img |-> Blank(64, 64, 255)]

InitSlice ==
  /\ \/ \E s \in SliceSettings, w \in 1 .. MaxPixW, h \in 1 .. MaxPixH :
          /\ settings = s
          /\ s.preservePadding = 0
          /\ image = Blank(w, h, 255)
     \/ /\ settings = Scenario64.s
        /\ image = Scenario64.img
  /\ imageMetadata = getImageMetadata(image)
  /\ GridIdle
  /\ SliceIdle
  /\ TrimIdle
  /\ DetectIdle
  /\ ExportIdle
  /\ UiIdle

\* The rasters and settings an export can run on: validated ones.
InitPixels ==
  /\ \/ \E s \in SliceSettings, w \in 1 .. MaxPixW, h \in 1 .. MaxPixH :
          /\ validateSettings(s, [width |-> w, height |-> h]) = <<>>
          /\ settings = s
          /\ \E a \in AlphaPairs, m \in MarkSets(w, h) :
                image = Painted(w, h, a[1], a[2], m)
     \/ /\ settings = Scenario64.s
        /\ image = Scenario64.img
  /\ imageMetadata = getImageMetadata(image)
  /\ GridIdle
  /\ SliceIdle
  /\ TrimIdle
  /\ DetectIdle
  /\ ExportIdle
  /\ UiIdle

\* sliceSprite is entered with the caller's gridInfo (slicer.ts:14-18).
SliceSprite(gi) ==
  /\ pc = "idle"
  /\ gridInfo' = gi
  /\ pc' = "loop"
  /\ tiles' = <<>>
  /\ row' = 0
  /\ col' = 0
  /\ current' = 0
  /\ progress' = <<>>
  /\ yields' = <<>>
  /\ sliceArgs' = << [image |-> image, settings |-> settings] >>
  /\ UNCHANGED <<inputVars, errors, calls, trimVars, detectVars, exportVars, uiVars>>

\* UI.exportTiles up to its call of sliceSprite (ui.ts:365-403): the settings
\* are validated and the grid is the one calculateGrid returns.
ExportTilesBegin ==
  /\ pc = "idle"
  /\ errors' = validateSettings(settings, imageMetadata)
  /\ IF errors' = <<>>
       THEN /\ gridInfo' = calculateGrid(settings, imageMetadata)
            /\ sliceArgs' = << [image |-> image, settings |-> settings] >>
            /\ pc' = "loop"
       ELSE /\ gridInfo' = gridInfo
            /\ sliceArgs' = <<>>
            /\ pc' = "refused"
  /\ tiles' = <<>>
  /\ row' = 0
  /\ col' = 0
  /\ current' = 0
  /\ progress' = <<>>
  /\ yields' = <<>>
  /\ UNCHANGED <<inputVars, calls, trimVars, detectVars, exportVars, uiVars>>

\* Both for loops have run out (slicer.ts:20-21).
LoopDone == row >= gridInfo.rows \/ gridInfo.cols <= 0

\* One iteration of the inner loop (slicer.ts:22-41), up to its end or to the
\* timer it suspends on.
SliceStep ==
  /\ pc = "loop"
  /\ ~LoopDone
  /\ tiles' = Append(tiles, extractTile(image, settings, row, col))
  /\ current' = current + 1
  /\ progress' = Append(progress,
                        sliceProgressEvent(current + 1, gridInfo.rows * gridInfo.cols))
  /\ yields' = Suspend(sliceYields(current + 1), "sliceSprite", current + 1)
  /\ UNCHANGED sliceArgs
  /\ IF col + 1 < gridInfo.cols
       THEN /\ col' = col + 1
            /\ row' = row
       ELSE /\ col' = 0
            /\ row' = row + 1
  /\ pc' = pc
  /\ UNCHANGED <<inputVars, gridVars, trimVars, detectVars, exportVars, uiVars>>

\* return tiles (slicer.ts:45).
SliceReturn ==
  /\ pc = "loop"
  /\ LoopDone
  /\ pc' = "returned"
  /\ UNCHANGED <<inputVars, gridVars, tiles, row, col, current, progress, yields, sliceArgs, trimVars, detectVars, exportVars, uiVars>>

NextSlice ==
  \/ \E gi \in GridArgs \cup {calculateGrid(settings, imageMetadata)} : SliceSprite(gi)
  \/ SliceStep
  \/ SliceReturn

SpecSlice == InitSlice /\ [][NextSlice]_vars

NextPixels == ExportTilesBegin \/ SliceStep \/ SliceReturn

SpecPixels == InitPixels /\ [][NextPixels]_vars

(***************************************************************************)
(* Trim runs: trimTransparentEdges applied to a drawn canvas, then to its  *)
(* own result.                                                             *)
(***************************************************************************)
\* 0 is transparent; 1 is the least alpha the scan counts as content.
TrimAlphas == {0, 1}

InitTrim ==
  /\ \E w \in 1 .. MaxCanvas, h \in 1 .. MaxCanvas :
        \E d \in [Pixels(w, h) -> TrimAlphas] :
           trimCanvas = [width |-> w, height |-> h, data |-> d]
  /\ trimPadding \in 0 .. MaxPad
  /\ trimmed = <<>>
  /\ settings = DefaultSettings
  /\ image = Blank(1, 1, 0)
  /\ imageMetadata = getImageMetadata(image)
  /\ GridIdle
  /\ SliceIdle
  /\ DetectIdle
  /\ ExportIdle
  /\ UiIdle

TrimTransparentEdges ==
  /\ Len(trimmed) < 2
  /\ trimmed' = Append(trimmed,
                       trimTransparentEdges(IF trimmed = <<>> THEN trimCanvas
                                            ELSE trimmed[Len(trimmed)].canvas,
                                            trimPadding))
  /\ UNCHANGED <<inputVars, gridVars, sliceVars, trimCanvas, trimPadding, detectVars, exportVars, uiVars>>

NextTrim == TrimTransparentEdges

SpecTrim == InitTrim /\ [][NextTrim]_vars

(***************************************************************************)
(* Detection runs: tryDetectGrid applied to a drawn raster at one of the   *)
(* candidate sizes, as autoDetectTileSize calls it (grid.ts:58-59).        *)
(***************************************************************************)
DetectDims == {32, 64, 96}

\* Pixels on and off the grid lines and the sampled positions.
DetectMarks ==
  { <<16, 0>>, <<16, 5>>, <<32, 10>>, <<48, 20>>,
    <<0, 16>>, <<5, 16>>, <<10, 32>>, <<20, 48>> }

DetectMarkSets == {ms \in SUBSET DetectMarks : Cardinality(ms) <= MaxMarks}

\* <<background alpha, alpha of the marked pixels>>, around the threshold 128.
DetectAlphaPairs == { <<0, 129>>, <<128, 255>>, <<0, 128>> }

\* Sheets of opaque tiles separated by transparent gutters 2 pixels wide that
\* recur every 32 pixels in both axes; g is where the gutter starts in its period.
InGutter(k, g) == k % 32 = g \/ k % 32 = (g + 1) % 32

GutterRaster(w, h, g) ==
  [width |-> w, height |-> h,
   data |-> [p \in Pixels(w, h) |->
               IF InGutter(p[1], g) \/ InGutter(p[2], g) THEN 0 ELSE 255]]

\* Widths and heights of the gutter sheets: 2, 3 and 4 tiles per axis.
GutterDims == {64, 96, 128}

\* The gutter opens the period, closes it, or straddles the period's boundary.
GutterPhases == {0, 30, 31}

InitDetect ==
  /\ \/ \E w \in DetectDims, h \in DetectDims, a \in DetectAlphaPairs, m \in DetectMarkSets :
          image = Painted(w, h, a[1], a[2], m \cap Pixels(w, h))
     \/ \E d \in GutterDims, g \in GutterPhases :
          image = GutterRaster(d, d, g)
  /\ imageMetadata = getImageMetadata(image)
  /\ settings = DefaultSettings
  /\ GridIdle
  /\ SliceIdle
  /\ TrimIdle
  /\ DetectIdle
  /\ ExportIdle
  /\ UiIdle

\* getImageData(0, 0, width, height) of the drawn image is the image (grid.ts:47-53).
TryDetectGrid(size) ==
  /\ detectSize = 0
  /\ detectSize' = size
  /\ detected' = tryDetectGrid(image, size, size)
  /\ UNCHANGED <<inputVars, gridVars, sliceVars, trimVars, autoDetected, exportVars, uiVars>>

\* GridCalculator.autoDetectTileSize applied to the raster (grid.ts:46-66).
AutoDetectTileSize ==
  /\ "autoDetectTileSize" \notin calls
  /\ autoDetected' = autoDetectTileSize(image)
  /\ calls' = calls \cup {"autoDetectTileSize"}
  /\ UNCHANGED <<inputVars, gridInfo, errors, sliceVars, trimVars, detectSize, detected,
                 exportVars, uiVars>>

NextDetect ==
  \/ \E i \in 1 .. Len(commonSizes) : TryDetectGrid(commonSizes[i])
  \/ AutoDetectTileSize

SpecDetect == InitDetect /\ [][NextDetect]_vars

\* The naming patterns of ExportSettings (types.d.ts:25).
NamingPatterns == {"row_col", "index", "custom"}

\* Custom prefixes: empty, letters, and one that ends in a digit.
Prefixes == { <<>>, <<"t", "_">>, <<"s", "1">> }

(***************************************************************************)
(* Archive runs: ZipExporter.exportTiles (zipper.ts:6-115) applied to the  *)
(* tiles sliceSprite returned, one action per unit of work.                *)
(***************************************************************************)
\* <<width, height>> of the rasters that are sliced and archived.
ZipRasterSizes == { <<1, 1>>, <<2, 1>>, <<3, 2>> }

ZipSettings ==
  { MkSettings(tw, th, m, s, 0, 0, trim, 0) :
      tw \in 1 .. MaxTile, th \in 1 .. MaxTile, m \in 0 .. MaxGap, s \in 0 .. MaxGap,
      trim \in BOOLEAN }

ZipExportSettings ==
  [namingPattern : NamingPatterns, customPrefix : { <<"t", "_">> },
   skipTransparent : BOOLEAN, includeContactSheet : BOOLEAN]

InitZip ==
  /\ \E s \in ZipSettings, d \in ZipRasterSizes :
        /\ validateSettings(s, [width |-> d[1], height |-> d[2]]) = <<>>
        /\ settings = s
        /\ \E a \in AlphaPairs, m \in MarkSets(d[1], d[2]) :
              image = Painted(d[1], d[2], a[1], a[2], m)
  /\ imageMetadata = getImageMetadata(image)
  /\ GridIdle
  /\ SliceIdle
  /\ TrimIdle
  /\ DetectIdle
  /\ ExportIdle
  /\ UiIdle

\* exportTiles is entered (zipper.ts:14-23): a new archive, validTiles, total
\* and current.
ZipEnter(tileSeq, s, es, meta, sheet) ==
  /\ settings' = s
  /\ exportSettings' = es
  /\ imageMetadata' = meta
  /\ contactSheet' = sheet
  /\ validTiles' = zipValidTiles(tileSeq, es)
  /\ zipTotal' = zipTotalOf(zipValidTiles(tileSeq, es), sheet)
  /\ zipCurrent' = 0
  /\ zip' = EmptyZip
  /\ pc' = "zipLoop"

\* ZipExporter.exportTiles called with the tiles sliceSprite returned, the
\* settings they were cut with, and any export settings and contact sheet.
ZipExportTiles(es, sheet) ==
  /\ pc = "returned"
  /\ ZipEnter(tiles, settings, es, imageMetadata, sheet)
  /\ calls' = calls \cup {"exportTiles"}
  /\ UNCHANGED <<image, gridInfo, errors, tiles, row, col, current, progress, yields, sliceArgs, trimVars,
                 detectVars, filename, columns, uiVars>>

\* onProgress({current, total, percentage}) (zipper.ts:36-41, 60-65, 104-109).
ZipProgress(cur, pct) ==
  Append(progress, [current |-> cur, total |-> zipTotal, percentage |-> pct])

\* One iteration of the loop over validTiles (zipper.ts:26-48); canvasToBlob
\* resolves, or rejects when toBlob hands it no blob (zipper.ts:132-142).
ZipTileStep ==
  /\ pc = "zipLoop"
  /\ zipCurrent < Len(validTiles)
  /\ LET tile == validTiles[zipCurrent + 1]
     IN /\ filename' = generateFilename(tile, exportSettings)
        /\ \/ /\ zip' = [zip EXCEPT !.tiles = AddFile(@, filename', tile.canvas)]
              /\ zipCurrent' = zipCurrent + 1
              /\ progress' = ZipProgress(zipCurrent + 1,
                                         Percentage(zipCurrent + 1, zipTotal))
              /\ yields' = Suspend(zipYields(zipCurrent + 1), "exportTiles", zipCurrent + 1)
              /\ pc' = pc
           \/ /\ pc' = "zipFailed"
              /\ UNCHANGED <<zip, zipCurrent, progress, yields>>
  /\ UNCHANGED <<inputVars, gridVars, tiles, row, col, current, sliceArgs, trimVars, detectVars,
                 exportSettings, columns, contactSheet, validTiles, zipTotal, uiVars>>

\* The contact sheet is added (zipper.ts:51-67), or its encoding fails.
ZipContactSheet ==
  /\ pc = "zipLoop"
  /\ zipCurrent = Len(validTiles)
  /\ contactSheet # <<>> /\ exportSettings.includeContactSheet
  /\ \/ /\ zip' = [zip EXCEPT !.contactSheet = TRUE]
        /\ zipCurrent' = zipCurrent + 1
        /\ progress' = ZipProgress(zipCurrent + 1, Percentage(zipCurrent + 1, zipTotal))
        /\ pc' = "zipMeta"
     \/ /\ pc' = "zipFailed"
        /\ UNCHANGED <<zip, zipCurrent, progress>>
  /\ UNCHANGED <<inputVars, gridVars, tiles, row, col, current, yields, sliceArgs, trimVars, detectVars,
                 exportSettings, filename, columns, contactSheet, validTiles, zipTotal,
                 uiVars>>

\* meta.json is added and the last event is sent (zipper.ts:70-110).
ZipMeta ==
  /\ \/ pc = "zipMeta"
     \/ /\ pc = "zipLoop"
        /\ zipCurrent = Len(validTiles)
        /\ ~(contactSheet # <<>> /\ exportSettings.includeContactSheet)
  /\ zip' = [zip EXCEPT !.meta = << zipMetadata(tiles, validTiles, settings,
                                                exportSettings, imageMetadata) >>]
  /\ zipCurrent' = zipCurrent + 1
  /\ progress' = ZipProgress(zipCurrent + 1, Hundred)
  /\ pc' = "zipGenerate"
  /\ UNCHANGED <<inputVars, gridVars, tiles, row, col, current, yields, sliceArgs, trimVars, detectVars,
                 exportSettings, filename, columns, contactSheet, validTiles, zipTotal,
                 uiVars>>

\* The archive is generated and handed to saveAs (zipper.ts:113-114).
ZipSave ==
  /\ pc = "zipGenerate"
  /\ calls' = calls \cup {"saveAs"}
  /\ pc' = "zipDone"
  /\ UNCHANGED <<inputVars, gridInfo, errors, tiles, row, col, current, progress, yields, sliceArgs,
                 trimVars, detectVars, exportVars, uiVars>>

NextZip ==
  \/ SliceSprite(calculateGrid(settings, imageMetadata))
  \/ SliceStep
  \/ SliceReturn
  \/ \E es \in ZipExportSettings, sheet \in { <<>>, << createContactSheet(tiles, 10) >> } :
        ZipExportTiles(es, sheet)
  \/ ZipTileStep
  \/ ZipContactSheet
  \/ ZipMeta
  \/ ZipSave

SpecZip == InitZip /\ [][NextZip]_vars

(***************************************************************************)
(* Long runs: the same slicing and archiving steps on sheets of up to 21   *)
(* tiles, which reach the timers of both loops.  The host runs every task  *)
(* it was handed: a resolved timer, a settled toBlob or generateAsync.     *)
(***************************************************************************)
\* <<width, height>> of the sheets, cut into 1x1 tiles.
LoopRasterSizes == { <<3, 2>>, <<5, 2>>, <<7, 3>> }

InitLoops ==
  /\ settings = MkSettings(1, 1, 0, 0, 0, 0, FALSE, 0)
  /\ \E d \in LoopRasterSizes, m \in { {}, { <<0, 0>> } } :
        image = Painted(d[1], d[2], 255, 0, m)
  /\ imageMetadata = getImageMetadata(image)
  /\ GridIdle
  /\ SliceIdle
  /\ TrimIdle
  /\ DetectIdle
  /\ ExportIdle
  /\ UiIdle

SpecLoops ==
  /\ InitLoops
  /\ [][NextZip]_vars
  /\ WF_vars(SliceStep)
  /\ WF_vars(SliceReturn)
  /\ WF_vars(ZipTileStep)
  /\ WF_vars(ZipContactSheet)
  /\ WF_vars(ZipMeta)
  /\ WF_vars(ZipSave)

(***************************************************************************)
(* UI (ui.ts): the handlers of the file input, of the settings inputs and  *)
(* of the export button.  One export run is followed at a time; its        *)
(* slicing and archiving steps are those above, and the other handlers     *)
(* run between them.                                                       *)
(***************************************************************************)
\* showStatus (ui.ts:444-448): the text and class of the status element.
showStatus(message, type) == [message |-> message, type |-> type]

ImagePng == <<"i", "m", "a", "g", "e", "/", "p", "n", "g">>
ImageJpeg == <<"i", "m", "a", "g", "e", "/", "j", "p", "e", "g">>

\* String.prototype.startsWith.
StartsWith(str, prefix) ==
  /\ Len(str) >= Len(prefix)
  /\ SubSeq(str, 1, Len(prefix)) = prefix

\* Mutation of loadImage: the file type is not looked at.
loadImageAnyType(file) ==
  IF ~file.decodes
    THEN [ok |-> FALSE, message |-> "Error: Failed to load image", image |-> NullImage]
    ELSE [ok |-> TRUE, message |-> "", image |-> file.raster]

\* ImageLoader.loadImage (part_000:13-28): the promise resolves with the
\* decoded image or rejects with an Error, whose message handleFile shows
\* behind "Error: " (ui.ts:226).
loadImage(file) ==
  IF ~StartsWith(file.type, ImagePng)
    THEN [ok |-> FALSE, message |-> "Error: Only PNG files are supported",
          image |-> NullImage]
  ELSE IF ~file.decodes
    THEN [ok |-> FALSE, message |-> "Error: Failed to load image", image |-> NullImage]
    ELSE [ok |-> TRUE, message |-> "", image |-> file.raster]

\* Mutation of exportRefusal: the settings are not validated.
exportRefusalNoValidation(img, meta, s) ==
  IF img = NullImage \/ meta = NullMetadata THEN << "Please load an image first" >>
  ELSE <<>>

\* The guards of UI.exportTiles (ui.ts:366-375): the status text of the
\* refusal, <<>> when the export may start.
exportRefusal(img, meta, s) ==
  IF img = NullImage \/ meta = NullMetadata THEN << "Please load an image first" >>
  ELSE IF Len(validateSettings(s, meta)) > 0
    THEN << "Please fix validation errors before exporting" >>
    ELSE <<>>

\* Mutation of exportFinally: the button stays disabled.
exportFinallyStillDisabled(btn) == [btn EXCEPT !.textContent = "Export ZIP"]

\* The export button after the finally block (ui.ts:428-430).
exportFinally(btn) == [btn EXCEPT !.disabled = FALSE, !.textContent = "Export ZIP"]

\* The files handed to the file input: a JPEG, a PNG that does not decode, and
\* three PNGs that do, the last one large enough for ten tiles.
UiFiles ==
  { [type |-> ImageJpeg, decodes |-> TRUE, raster |-> Blank(1, 1, 255)],
    [type |-> ImagePng, decodes |-> FALSE, raster |-> NullImage],
    [type |-> ImagePng, decodes |-> TRUE, raster |-> Blank(1, 1, 255)],
    [type |-> ImagePng, decodes |-> TRUE, raster |-> Painted(2, 1, 255, 0, { <<0, 0>> })],
    [type |-> ImagePng, decodes |-> TRUE, raster |-> Blank(5, 2, 255)] }

\* The settings the inputs can hold (ui.ts:314-325), some of them invalid.
UiSettings ==
  { DefaultSettings } \cup { MkSettings(tw, 1, 0, 0, 0, 0, FALSE, 0) : tw \in {-1, 1, 2} }

UiExportSettings ==
  [namingPattern : {"row_col"}, customPrefix : { <<>> },
   skipTransparent : {FALSE}, includeContactSheet : BOOLEAN]

\* The UI as its constructor leaves it (ui.ts:30-61): no image; the settings
\* are the defaults or those loadSettings read back; the page decides whether
\* the controls start disabled and whether the export button is one of the
\* elements '#controls button' selects (ui.ts:438).
InitUI ==
  /\ currentImage = NullImage
  /\ currentImageMetadata = NullMetadata
  /\ currentSettings \in UiSettings
  /\ currentExportSettings \in UiExportSettings
  /\ status = showStatus("", "info")
  /\ \E d \in BOOLEAN, c \in BOOLEAN :
        /\ exportBtn = [disabled |-> d, textContent |-> "Export ZIP", inControls |-> c]
        /\ controlsDisabled = d
  /\ progressContainer = "none"
  /\ settings = DefaultSettings
  /\ image = NullImage
  /\ imageMetadata = NullMetadata
  /\ GridIdle
  /\ SliceIdle
  /\ TrimIdle
  /\ DetectIdle
  /\ ExportIdle

\* The last suspension of the run was taken by this loop at this count.
SuspendedAt(loop, cur) ==
  /\ yields # <<>>
  /\ yields[Len(yields)] = [loop |-> loop, current |-> cur]

\* The host can dispatch an event to a handler: no export run is executing.
\* A run stands still only where it awaits a task of the host: the timers of
\* the two loops (slicer.ts:40, zipper.ts:46), canvas.toBlob (zipper.ts:28,
\* 52, 132-142) and generateAsync (zipper.ts:113).  Awaiting sliceSprite's
\* promise (ui.ts:398) lets no task run.
HostIdle ==
  \/ pc = "idle"
  \/ pc = "loop" /\ SuspendedAt("sliceSprite", current)
  \/ /\ pc = "zipLoop"
     /\ \/ zipCurrent < Len(validTiles)
        \/ contactSheet # <<>> /\ exportSettings.includeContactSheet
        \/ SuspendedAt("exportTiles", zipCurrent)
  \/ pc = "zipGenerate"

\* enableControls(true) (ui.ts:437-442) on the export button: enabled when it
\* is a button of the controls.
enableControls(btn) == IF btn.inControls THEN [btn EXCEPT !.disabled = FALSE] ELSE btn

\* UI.handleFile (ui.ts:210-228), when loadImage has settled.
HandleFile(file) ==
  /\ HostIdle
  /\ LET loaded == loadImage(file)
     IN IF loaded.ok
          THEN /\ currentImage' = loaded.image
               /\ currentImageMetadata' = getImageMetadata(loaded.image)
               /\ status' = showStatus("Image loaded successfully", "success")
               /\ controlsDisabled' = FALSE
               /\ exportBtn' = enableControls(exportBtn)
          ELSE /\ status' = showStatus(loaded.message, "error")
               /\ UNCHANGED <<currentImage, currentImageMetadata, controlsDisabled,
                              exportBtn>>
  /\ UNCHANGED <<inputVars, gridVars, sliceVars, trimVars, detectVars, exportVars,
                 currentSettings, currentExportSettings, progressContainer>>

\* The input listeners (ui.ts:118-132): updateSettingsFromInputs builds a new
\* settings object from what the inputs hold.
UpdateSettingsFromInputs(s) ==
  /\ HostIdle
  /\ ~controlsDisabled
  /\ currentSettings # s
  /\ currentSettings' = s
  /\ UNCHANGED <<inputVars, gridVars, sliceVars, trimVars, detectVars, exportVars,
                 currentImage, currentImageMetadata, currentExportSettings, status,
                 exportBtn, progressContainer, controlsDisabled>>

\* The export listeners (ui.ts:141-146).
UpdateExportSettingsFromInputs(es) ==
  /\ HostIdle
  /\ ~controlsDisabled
  /\ currentExportSettings # es
  /\ currentExportSettings' = es
  /\ UNCHANGED <<inputVars, gridVars, sliceVars, trimVars, detectVars, exportVars,
                 currentImage, currentImageMetadata, currentSettings, status,
                 exportBtn, progressContainer, controlsDisabled>>

\* UI.exportTiles from the click to its call of sliceSprite (ui.ts:365-403).
UiExportTiles ==
  /\ pc = "idle"
  /\ ~exportBtn.disabled
  /\ LET refusal == exportRefusal(currentImage, currentImageMetadata, currentSettings)
     IN IF refusal # <<>>
          THEN /\ status' = showStatus(refusal[1], "error")
               /\ calls' = {}
               /\ UNCHANGED <<inputVars, gridInfo, sliceVars, exportBtn, progressContainer>>
          ELSE /\ exportBtn' = [exportBtn EXCEPT !.disabled = TRUE,
                                                    !.textContent = "Exporting..."]
               /\ gridInfo' = calculateGrid(currentSettings, currentImageMetadata)
               /\ progressContainer' = "block"
               /\ status' = showStatus("Slicing tiles...", "info")
               /\ image' = currentImage
               /\ settings' = currentSettings
               /\ UNCHANGED imageMetadata
               /\ calls' = {"sliceSprite"}
               /\ pc' = "loop"
               /\ tiles' = <<>>
               /\ row' = 0
               /\ col' = 0
               /\ current' = 0
               /\ progress' = <<>>
               /\ yields' = <<>>
               /\ sliceArgs' = << [image |-> currentImage, settings |-> currentSettings] >>
  /\ UNCHANGED <<errors, trimVars, detectVars, exportVars, currentImage,
                 currentImageMetadata, currentSettings, currentExportSettings,
                 controlsDisabled>>

\* UI.exportTiles from the return of sliceSprite to its call of
\* ZipExporter.exportTiles (ui.ts:405-421).
UiCreateZip ==
  /\ pc = "returned"
  /\ LET sheet == IF currentExportSettings.includeContactSheet
                    THEN << createContactSheet(tiles, 10) >>
                    ELSE <<>>
     IN /\ calls' = calls \cup {"exportTiles"} \cup
                       (IF sheet # <<>> THEN {"createContactSheet"} ELSE {})
        /\ ZipEnter(tiles, currentSettings, currentExportSettings, currentImageMetadata,
                    sheet)
  /\ status' = showStatus("Creating ZIP file...", "info")
  /\ UNCHANGED <<image, gridInfo, errors, tiles, row, col, current, progress, yields, sliceArgs, trimVars,
                 detectVars, filename, columns, currentImage, currentImageMetadata,
                 currentSettings, currentExportSettings, exportBtn, progressContainer,
                 controlsDisabled>>

\* UI.exportTiles after ZipExporter.exportTiles has settled (ui.ts:423-434).
\* The run's locals (grid, tiles, archive, events) end with it.
UiExportEnd ==
  /\ pc \in {"zipDone", "zipFailed"}
  /\ status' = IF pc = "zipDone"
                 THEN showStatus("Export completed successfully!", "success")
                 ELSE showStatus("Export failed: Failed to convert canvas to blob", "error")
  /\ exportBtn' = exportFinally(exportBtn)
  /\ progressContainer' = "none"
  /\ pc' = "idle"
  /\ tiles' = <<>>
  /\ row' = 0
  /\ col' = 0
  /\ current' = 0
  /\ progress' = <<>>
  /\ yields' = <<>>
  /\ sliceArgs' = <<>>
  /\ exportSettings' = DefaultExportSettings
  /\ filename' = <<>>
  /\ contactSheet' = <<>>
  /\ validTiles' = <<>>
  /\ zipTotal' = 0
  /\ zipCurrent' = 0
  /\ zip' = EmptyZip
  /\ gridInfo' = NoGrid
  /\ settings' = DefaultSettings
  /\ image' = NullImage
  /\ imageMetadata' = NullMetadata
  /\ UNCHANGED <<errors, calls, columns, trimVars, detectVars, currentImage,
                 currentImageMetadata, currentSettings, currentExportSettings,
                 controlsDisabled>>

NextUI ==
  \/ \E file \in UiFiles : HandleFile(file)
  \/ \E s \in UiSettings : UpdateSettingsFromInputs(s)
  \/ \E es \in UiExportSettings : UpdateExportSettingsFromInputs(es)
  \/ UiExportTiles
  \/ SliceStep
  \/ SliceReturn
  \/ UiCreateZip
  \/ ZipTileStep
  \/ ZipContactSheet
  \/ ZipMeta
  \/ ZipSave
  \/ UiExportEnd

SpecUI == InitUI /\ [][NextUI]_vars

(***************************************************************************)
(* Naming runs: generateFilename applied to a drawn tile under drawn       *)
(* export settings.                                                        *)
(***************************************************************************)
InitName ==
  /\ \E r \in 0 .. MaxCoord, c \in 0 .. MaxCoord, i \in 0 .. MaxIndex :
        tiles = << [canvas |-> Blank(1, 1, 255), row |-> r, col |-> c, index |-> i,
                    isEmpty |-> FALSE] >>
  /\ \E np \in NamingPatterns, cp \in Prefixes :
        exportSettings = [namingPattern |-> np, customPrefix |-> cp,
                          skipTransparent |-> FALSE, includeContactSheet |-> FALSE]
  /\ settings = DefaultSettings
  /\ image = Blank(1, 1, 0)
  /\ imageMetadata = getImageMetadata(image)
  /\ GridIdle
  /\ pc = "idle" /\ row = 0 /\ col = 0 /\ current = 0 /\ progress = <<>>
  /\ yields = <<>> /\ sliceArgs = <<>>
  /\ TrimIdle
  /\ DetectIdle
  /\ filename = <<>>
  /\ columns = 10
  /\ contactSheet = <<>>
  /\ validTiles = <<>>
  /\ zipTotal = 0
  /\ zipCurrent = 0
  /\ zip = EmptyZip
  /\ UiIdle

GenerateFilename ==
  /\ "generateFilename" \notin calls
  /\ filename' = generateFilename(tiles[1], exportSettings)
  /\ calls' = calls \cup {"generateFilename"}
  /\ UNCHANGED <<inputVars, gridInfo, errors, sliceVars, trimVars, detectVars,
                 exportSettings, columns, contactSheet, validTiles, zipTotal, zipCurrent,
                 zip, uiVars>>

NextName == GenerateFilename

SpecName == InitName /\ [][NextName]_vars

(***************************************************************************)
(* Contact sheet runs: createContactSheet applied to drawn tiles.          *)
(***************************************************************************)
\* The canvases of the tiles: an empty tile left 1x1 by the trim, or a non-empty
\* one of any size a tile can have.
SheetCanvases ==
  { [canvas |-> Blank(1, 1, 0), isEmpty |-> TRUE] } \cup
  { [canvas |-> Blank(w, h, 255), isEmpty |-> FALSE] : w \in 1 .. MaxTile, h \in 1 .. MaxTile }

InitSheet ==
  /\ \E n \in 0 .. MaxSheetTiles :
        \E cs \in [1 .. n -> SheetCanvases] :
           tiles = [k \in 1 .. n |->
                      [canvas |-> cs[k].canvas, row |-> 0, col |-> k - 1, index |-> k - 1,
                       isEmpty |-> cs[k].isEmpty]]
  /\ columns \in 1 .. MaxColumns
  /\ settings = DefaultSettings
  /\ image = Blank(1, 1, 0)
  /\ imageMetadata = getImageMetadata(image)
  /\ GridIdle
  /\ pc = "idle" /\ row = 0 /\ col = 0 /\ current = 0 /\ progress = <<>>
  /\ yields = <<>> /\ sliceArgs = <<>>
  /\ TrimIdle
  /\ DetectIdle
  /\ exportSettings = DefaultExportSettings
  /\ filename = <<>>
  /\ contactSheet = <<>>
  /\ validTiles = <<>>
  /\ zipTotal = 0
  /\ zipCurrent = 0
  /\ zip = EmptyZip
  /\ UiIdle

CreateContactSheet ==
  /\ "createContactSheet" \notin calls
  /\ contactSheet' = << createContactSheet(tiles, columns) >>
  /\ calls' = calls \cup {"createContactSheet"}
  /\ UNCHANGED <<inputVars, gridInfo, errors, sliceVars, trimVars, detectVars,
                 exportSettings, filename, columns, validTiles, zipTotal, zipCurrent,
                 zip, uiVars>>

NextSheet == CreateContactSheet

SpecSheet == InitSheet /\ [][NextSheet]_vars

(***************************************************************************)
(* Claims about the grid geometry.                                         *)
(***************************************************************************)

\* C1: for valid settings (sizes > 0, margin, spacing and offsets >= 0) and
\* any raster, calculateGrid returns rows >= 0, cols >= 0 and
\* totalTiles = rows * cols, also when the raster holds no tile on either
\* or both axes.  The code clamps rows, cols and the product separately, so
\* two negative quotients give rows = cols = 0 with totalTiles > 0.
C1_TotalTilesIsProduct ==
  ("calculateGrid" \in calls /\ ValidSettings(settings)) =>
     /\ gridInfo.rows >= 0
     /\ gridInfo.cols >= 0
     /\ gridInfo.totalTiles = gridInfo.rows * gridInfo.cols

\* The number of messages of errors whose text is txt.
CountText(errs, txt) == Cardinality({k \in 1 .. Len(errs) : errs[k][1] = txt})

\* The eight constraints validateSettings checks: whether each is violated,
\* stated on the inputs, and the message that reports it.
C2_Constraints ==
  LET s == settings
      m == imageMetadata
  IN << [violated |-> s.tileWidth <= 0, msg |-> MsgTileWidth],
        [violated |-> s.tileHeight <= 0, msg |-> MsgTileHeight],
        [violated |-> s.margin < 0, msg |-> MsgMargin],
        [violated |-> s.spacing < 0, msg |-> MsgSpacing],
        [violated |-> s.offsetX < 0, msg |-> MsgOffsetX],
        [violated |-> s.offsetY < 0, msg |-> MsgOffsetY],
        [violated |-> m.width < 2 * s.margin + s.offsetX + s.tileWidth,
         msg |-> MsgWidth(m.width, 2 * s.margin + s.offsetX + s.tileWidth)],
        [violated |-> m.height < 2 * s.margin + s.offsetY + s.tileHeight,
         msg |-> MsgHeight(m.height, 2 * s.margin + s.offsetY + s.tileHeight)] >>

\* C2: validateSettings returns exactly one message per violated constraint
\* among the eight, each reported whatever the others are, so the list is
\* empty iff none is violated; a 10x10 raster with tileWidth = 20 and the
\* rest feasible gives the single message citing the required width 20.
C2_OneMessagePerViolation ==
  "validateSettings" \in calls =>
     /\ \A i \in 1 .. 8 :
          /\ CountText(errors, C2_Constraints[i].msg[1])
               = (IF C2_Constraints[i].violated THEN 1 ELSE 0)
          /\ C2_Constraints[i].violated =>
               \E k \in 1 .. Len(errors) : errors[k] = C2_Constraints[i].msg
     /\ Len(errors) = Cardinality({i \in 1 .. 8 : C2_Constraints[i].violated})
     /\ (errors = <<>>) <=> (\A i \in 1 .. 8 : ~C2_Constraints[i].violated)
     /\ (/\ imageMetadata = [width |-> 10, height |-> 10]
         /\ settings = MkSettings(20, 10, 0, 0, 0, 0, FALSE, 0))
          => errors = << <<"Image width is too small for current settings", 10, 20>> >>

\* C2 witness: the 10x10 scenario has been validated.
C2_Witness ==
  /\ "validateSettings" \in calls
  /\ imageMetadata.width = 10
  /\ settings.tileWidth = 20
  /\ Len(errors) = 1

\* The rectangle extractTile reads for the cell (r, c) lies in the raster.
RectInRaster(s, meta, r, c) ==
  /\ sourceX(s, c) >= 0
  /\ sourceY(s, r) >= 0
  /\ sourceX(s, c) + s.tileWidth <= meta.width
  /\ sourceY(s, r) + s.tileHeight <= meta.height

\* C3: when validateSettings returns the empty list, calculateGrid on the
\* same inputs gives rows >= 1 and cols >= 1, and the source rectangle of
\* every cell (row < rows, col < cols) lies entirely inside the raster.
C3_ValidatedRectsInRaster ==
  (calls = {"calculateGrid", "validateSettings"} /\ errors = <<>>) =>
     /\ gridInfo.rows >= 1
     /\ gridInfo.cols >= 1
     /\ \A r \in 0 .. (gridInfo.rows - 1), c \in 0 .. (gridInfo.cols - 1) :
          RectInRaster(settings, imageMetadata, r, c)

\* C3 witness: validated settings with a margin, spacing between two
\* columns and several rows.
C3_Witness ==
  /\ calls = {"calculateGrid", "validateSettings"}
  /\ errors = <<>>
  /\ settings.margin > 0
  /\ settings.spacing > 0
  /\ gridInfo.cols >= 2
  /\ gridInfo.rows >= 2

\* n tiles of the given size, separated by spacing, fit in the available
\* extent; no tile always fits.
TilesFit(n, size, spacing, available) ==
  n = 0 \/ n * size + (n - 1) * spacing <= available

\* C23: for tileWidth > 0 and spacing >= 0, calculateGrid's cols is the
\* largest n >= 0 such that n tiles of tileWidth separated by spacing fit in
\* availableWidth = width - 2*margin - offsetX: cols tiles fit and cols + 1
\* do not, and whenever availableWidth >= 0
\* cols*tileWidth + (cols-1)*spacing <= availableWidth
\*   < (cols+1)*tileWidth + cols*spacing; the same for rows with height,
\* offsetY and tileHeight.
C23_LargestFittingLayout ==
  LET s == settings
      aw == imageMetadata.width - 2 * s.margin - s.offsetX
      ah == imageMetadata.height - 2 * s.margin - s.offsetY
      cols == gridInfo.cols
      rows == gridInfo.rows
  IN ("calculateGrid" \in calls /\ s.spacing >= 0) =>
       /\ s.tileWidth > 0 =>
            /\ cols >= 0
            /\ TilesFit(cols, s.tileWidth, s.spacing, aw)
            /\ ~TilesFit(cols + 1, s.tileWidth, s.spacing, aw)
            /\ aw >= 0 =>
                 /\ cols * s.tileWidth + (cols - 1) * s.spacing <= aw
                 /\ aw < (cols + 1) * s.tileWidth + cols * s.spacing
       /\ s.tileHeight > 0 =>
            /\ rows >= 0
            /\ TilesFit(rows, s.tileHeight, s.spacing, ah)
            /\ ~TilesFit(rows + 1, s.tileHeight, s.spacing, ah)
            /\ ah >= 0 =>
                 /\ rows * s.tileHeight + (rows - 1) * s.spacing <= ah
                 /\ ah < (rows + 1) * s.tileHeight + rows * s.spacing

\* C23 witness: a layout of several columns separated by spacing that fills
\* the available width exactly, beside rows that leave a remainder.
C23_Witness ==
  /\ "calculateGrid" \in calls
  /\ settings.spacing > 0
  /\ settings.tileWidth > 0
  /\ settings.tileHeight > 0
  /\ gridInfo.cols >= 2
  /\ gridInfo.cols * settings.tileWidth + (gridInfo.cols - 1) * settings.spacing
       = imageMetadata.width - 2 * settings.margin - settings.offsetX
  /\ gridInfo.rows >= 1
  /\ gridInfo.rows * settings.tileHeight + (gridInfo.rows - 1) * settings.spacing
       < imageMetadata.height - 2 * settings.margin - settings.offsetY

\* C23 witness: nothing fits on a negative available width, and cols is 0.
C23_WitnessNoRoom ==
  /\ "calculateGrid" \in calls
  /\ settings.spacing > 0
  /\ settings.tileWidth > 0
  /\ imageMetadata.width - 2 * settings.margin - settings.offsetX < 0
  /\ gridInfo.cols = 0

(***************************************************************************)
(* Claims about sliceSprite and extractTile.                               *)
(***************************************************************************)

\* C4: every tile sliceSprite returns has index = row * gridInfo.cols + col,
\* whatever gridInfo the caller passes.  extractTile recomputes the column
\* count from the raster width instead of reading gridInfo.cols.
C4_IndexFromGridInfo ==
  \A k \in 1 .. Len(tiles) :
     tiles[k].index = tiles[k].row * gridInfo.cols + tiles[k].col

\* C5: sliceSprite returns exactly gridInfo.rows * gridInfo.cols tiles in
\* row-major order (the k-th tile, 0-based, has row = k div cols and
\* col = k mod cols); when gridInfo is calculateGrid of the same settings
\* and image the k-th tile's index is k; the 64x64 raster cut into 32x32
\* tiles gives indices 0,1,2,3 for (0,0),(0,1),(1,0),(1,1).
C5_RowMajorTiles ==
  /\ \A k \in 0 .. (Len(tiles) - 1) :
        /\ tiles[k + 1].row = k \div gridInfo.cols
        /\ tiles[k + 1].col = k % gridInfo.cols
        /\ gridInfo = calculateGrid(settings, getImageMetadata(image))
             => tiles[k + 1].index = k
  /\ pc = "returned" =>
        /\ Len(tiles) = gridInfo.rows * gridInfo.cols
        /\ (/\ image.width = 64 /\ image.height = 64
            /\ gridInfo = calculateGrid(settings, getImageMetadata(image)))
             => /\ gridInfo = [rows |-> 2, cols |-> 2, totalTiles |-> 4]
                /\ [k \in 1 .. 4 |-> <<tiles[k].row, tiles[k].col, tiles[k].index>>]
                     = << <<0, 0, 0>>, <<0, 1, 1>>, <<1, 0, 2>>, <<1, 1, 3>> >>

\* C5 witness: a run on the calculated layout returned several rows of
\* several tiles.
C5_Witness ==
  /\ pc = "returned"
  /\ gridInfo = calculateGrid(settings, getImageMetadata(image))
  /\ gridInfo.rows >= 2
  /\ gridInfo.cols >= 2
  /\ Len(tiles) >= 4

\* C24: sliceSprite invokes the progress callback exactly once per extracted
\* tile, after that tile is appended, with total = rows * cols and
\* current = 1, 2, ..., total in order: the k-th event has current = k and
\* percentage k / total * 100, there are as many events as tiles at every
\* moment, and the last event of a finished run has current = total and
\* percentage 100; when total = 0 no event is emitted and an empty sequence
\* is returned.
C24_OneEventPerTile ==
  LET total == gridInfo.rows * gridInfo.cols
  IN pc \in {"loop", "returned"} =>
       /\ Len(progress) = Len(tiles)
       /\ Len(progress) = current
       /\ \A k \in 1 .. Len(progress) :
            /\ progress[k].current = k
            /\ progress[k].total = total
            /\ progress[k].percentage.num * total = k * 100 * progress[k].percentage.den
            /\ progress[k].percentage.den # 0
            /\ k <= total
       /\ pc = "returned" =>
            /\ Len(progress) = total
            /\ total > 0 =>
                 /\ progress[total].current = total
                 /\ progress[total].percentage.num = 100 * progress[total].percentage.den
            /\ total = 0 => (progress = <<>> /\ tiles = <<>>)

\* C24 witness: a run over several rows and columns has returned.
C24_Witness ==
  /\ pc = "returned"
  /\ gridInfo.rows >= 2
  /\ gridInfo.cols >= 2
  /\ Len(progress) = gridInfo.rows * gridInfo.cols

\* C24 witness: a run over a layout without tiles has returned.
C24_WitnessEmpty ==
  /\ pc = "returned"
  /\ gridInfo.rows > 0
  /\ gridInfo.cols = 0
  /\ progress = <<>>
  /\ tiles = <<>>

\* The tile t, put back at (col * tileWidth, row * tileHeight), covers p.
Covers(t, p) ==
  /\ t.col * settings.tileWidth <= p[1]
  /\ p[1] < t.col * settings.tileWidth + t.canvas.width
  /\ t.row * settings.tileHeight <= p[2]
  /\ p[2] < t.row * settings.tileHeight + t.canvas.height

C6_Precondition ==
  /\ settings.margin = 0 /\ settings.spacing = 0
  /\ settings.offsetX = 0 /\ settings.offsetY = 0
  /\ ~settings.trimTransparent
  /\ image.width % settings.tileWidth = 0
  /\ image.height % settings.tileHeight = 0

\* C6: with margin = spacing = offsets = 0, no trimming and a tile size that
\* divides the raster, the rows * cols tiles of calculateGrid + sliceSprite
\* cover every raster pixel exactly once, and putting each tile back at
\* (col * tileWidth, row * tileHeight) gives the raster pixel for pixel.
C6_RoundTrip ==
  (pc = "returned" /\ C6_Precondition) =>
     /\ Len(tiles) = gridInfo.rows * gridInfo.cols
     /\ Len(tiles) = (image.width \div settings.tileWidth)
                       * (image.height \div settings.tileHeight)
     /\ \A p \in Pixels(image.width, image.height) :
          /\ Cardinality({k \in 1 .. Len(tiles) : Covers(tiles[k], p)}) = 1
          /\ \A k \in 1 .. Len(tiles) :
               Covers(tiles[k], p) =>
                 tiles[k].canvas.data[<<p[1] - tiles[k].col * settings.tileWidth,
                                        p[2] - tiles[k].row * settings.tileHeight>>]
                   = image.data[p]

\* C6 witness: a raster with pixels of both kinds was cut into four or more
\* tiles under the round-trip conditions.
C6_Witness ==
  /\ pc = "returned"
  /\ C6_Precondition
  /\ Len(tiles) >= 4
  /\ \E p, q \in Pixels(image.width, image.height) : image.data[p] # image.data[q]

\* Every pixel of the rectangle extractTile reads for (r, c) has alpha 0.
RectTransparent(r, c) ==
  \A p \in Pixels(settings.tileWidth, settings.tileHeight) :
     AlphaAt(image,
             settings.margin + settings.offsetX
               + c * (settings.tileWidth + settings.spacing) + p[1],
             settings.margin + settings.offsetY
               + r * (settings.tileHeight + settings.spacing) + p[2]) = 0

\* C9: an extracted tile has isEmpty = TRUE iff every pixel of its
\* tileWidth x tileHeight rectangle has alpha 0, and the classification is
\* the same with trimTransparent on (any preservePadding) or off.
C9_EmptyIffTransparent ==
  pc = "returned" =>
    \A k \in 1 .. Len(tiles) :
       /\ tiles[k].isEmpty <=> RectTransparent(tiles[k].row, tiles[k].col)
       /\ \A tc \in TrimChoices :
            extractTile(image,
                        [settings EXCEPT !.trimTransparent = tc.trim,
                                         !.preservePadding = tc.pad],
                        tiles[k].row, tiles[k].col).isEmpty = tiles[k].isEmpty

\* C9 witness: a trimming run classified one tile empty and another not.
C9_Witness ==
  /\ pc = "returned"
  /\ settings.trimTransparent
  /\ \E j, k \in 1 .. Len(tiles) : tiles[j].isEmpty /\ ~tiles[k].isEmpty

\* C9 witness of the other branch: a run without trimming did the same.
C9_WitnessNoTrim ==
  /\ pc = "returned"
  /\ ~settings.trimTransparent
  /\ \E j, k \in 1 .. Len(tiles) : tiles[j].isEmpty /\ ~tiles[k].isEmpty

(***************************************************************************)
(* Claims about trimTransparentEdges.                                      *)
(***************************************************************************)

\* The pixels of the canvas handed to the trim that have alpha > 0.
Content == {p \in Pixels(trimCanvas.width, trimCanvas.height) : trimCanvas.data[p] > 0}

\* The least and the greatest coordinate of the content on each axis.
IsMinX(x) == (\E p \in Content : p[1] = x) /\ (\A p \in Content : x <= p[1])
IsMaxX(x) == (\E p \in Content : p[1] = x) /\ (\A p \in Content : p[1] <= x)
IsMinY(y) == (\E p \in Content : p[2] = y) /\ (\A p \in Content : y <= p[2])
IsMaxY(y) == (\E p \in Content : p[2] = y) /\ (\A p \in Content : p[2] <= y)

\* result is the sub-rectangle [x0, x1] x [y0, y1] of the canvas handed in.
IsSubRectangle(result, x0, y0, x1, y1) ==
  /\ result.width = x1 - x0 + 1
  /\ result.height = y1 - y0 + 1
  /\ DOMAIN result.data = Pixels(x1 - x0 + 1, y1 - y0 + 1)
  /\ \A q \in Pixels(x1 - x0 + 1, y1 - y0 + 1) :
       result.data[q] = trimCanvas.data[<<x0 + q[1], y0 + q[2]>>]

\* C7: trimTransparentEdges on a w x h tile with padding p >= 0 returns a
\* 1x1 buffer with isEmpty = TRUE when no pixel has alpha > 0, and otherwise
\* the sub-rectangle [max(0, minX - p), min(w - 1, maxX + p)] x
\* [max(0, minY - p), min(h - 1, maxY + p)] of the tight bounding box with
\* isEmpty = FALSE; the result is at least 1x1 and at most w x h.
C7_TrimIsPaddedBoundingBox ==
  Len(trimmed) = 1 =>
    LET r == trimmed[1]
        w == trimCanvas.width
        h == trimCanvas.height
        p == trimPadding
    IN /\ Content = {} =>
            r.isEmpty /\ r.canvas.width = 1 /\ r.canvas.height = 1
       /\ Content # {} =>
            /\ ~r.isEmpty
            /\ \E x0 \in 0 .. (w - 1) : IsMinX(x0) /\
                 \E x1 \in 0 .. (w - 1) : IsMaxX(x1) /\
                   \E y0 \in 0 .. (h - 1) : IsMinY(y0) /\
                     \E y1 \in 0 .. (h - 1) : IsMaxY(y1) /\
                       IsSubRectangle(r.canvas, Max(0, x0 - p), Max(0, y0 - p),
                                      Min(w - 1, x1 + p), Min(h - 1, y1 + p))
       /\ 1 <= r.canvas.width /\ r.canvas.width <= w
       /\ 1 <= r.canvas.height /\ r.canvas.height <= h

\* C7 witness: a padded trim cut the canvas down on both axes.
C7_Witness ==
  /\ Len(trimmed) >= 1
  /\ trimPadding > 0
  /\ ~trimmed[1].isEmpty
  /\ trimmed[1].canvas.width < trimCanvas.width
  /\ trimmed[1].canvas.height < trimCanvas.height

\* C8: for a tile with a pixel of alpha > 0, trimming with padding 0 the
\* result of trimming with padding 0 returns a buffer of the same size and
\* content: the second bounding box is the whole already-trimmed tile.
C8_TrimIdempotent ==
  (Len(trimmed) = 2 /\ trimPadding = 0 /\ Content # {}) =>
     /\ trimmed[2].canvas = trimmed[1].canvas
     /\ trimmed[2].isEmpty = trimmed[1].isEmpty
     /\ boundingBox(trimmed[1].canvas)
          = [minX |-> 0, minY |-> 0,
             maxX |-> trimmed[1].canvas.width - 1,
             maxY |-> trimmed[1].canvas.height - 1]

\* C8 witness: a canvas that the first trim cut down was trimmed twice.
C8_Witness ==
  /\ Len(trimmed) = 2
  /\ trimPadding = 0
  /\ Content # {}
  /\ trimmed[1].canvas.width < trimCanvas.width
  /\ trimmed[1].canvas.height < trimCanvas.height

(***************************************************************************)
(* Claims about tryDetectGrid.                                             *)
(***************************************************************************)

\* Every pixel sampled at stride 10 along the vertical line x has alpha <= 128.
LineXConsistent(x) ==
  \A y \in 0 .. (image.height - 1) : y % 10 = 0 => image.data[<<x, y>>] <= 128

LineYConsistent(y) ==
  \A x \in 0 .. (image.width - 1) : x % 10 = 0 => image.data[<<x, y>>] <= 128

\* C10: for a candidate size s with cols = floor(width / s) >= 2 and
\* rows = floor(height / s) >= 2, tryDetectGrid accepts exactly when at
\* least 70% of the cols - 1 internal vertical lines and at least 70% of the
\* rows - 1 internal horizontal lines are consistent; candidates with
\* cols < 2 or rows < 2 are rejected.  The code compares the counts with 70%
\* of cols and of rows.
C10_Accepts70PercentOfInternalLines ==
  detectSize > 0 =>
    LET cols == image.width \div detectSize
        rows == image.height \div detectSize
        vertical == Cardinality({c \in 1 .. (cols - 1) : LineXConsistent(c * detectSize)})
        horizontal == Cardinality({r \in 1 .. (rows - 1) : LineYConsistent(r * detectSize)})
    IN IF cols < 2 \/ rows < 2
         THEN detected = <<>>
         ELSE (detected # <<>>) <=>
                (/\ vertical * 10 >= (cols - 1) * 7
                 /\ horizontal * 10 >= (rows - 1) * 7)

(***************************************************************************)
(* Claims about autoDetectTileSize.                                        *)
(***************************************************************************)
\* The candidate sizes tryDetectGrid accepts on the raster.
AcceptedSizes == {s \in {16, 24, 32, 48, 64, 96, 128} : tryDetectGrid(image, s, s) # <<>>}

SquareTiles(s) ==
  [tileWidth |-> s, tileHeight |-> s, margin |-> 0, spacing |-> 0, offsetX |-> 0, offsetY |-> 0]

\* C11: autoDetectTileSize tries 16, 24, 32, 48, 64, 96, 128 in that order
\* and returns {tileWidth: s, tileHeight: s, margin: 0, spacing: 0,
\* offsetX: 0, offsetY: 0} for the smallest accepted size s; when no size is
\* accepted it returns null.
C11_SmallestAcceptedSizeWins ==
  "autoDetectTileSize" \in calls =>
    IF AcceptedSizes = {} THEN autoDetected = <<>>
    ELSE \E s \in AcceptedSizes :
           /\ \A u \in AcceptedSizes : s <= u
           /\ autoDetected = << SquareTiles(s) >>

\* autoDetectTileSize has returned the smaller of two accepted sizes.
C11_Witness ==
  /\ "autoDetectTileSize" \in calls
  /\ autoDetected # <<>>
  /\ \E u \in AcceptedSizes : u > autoDetected[1].tileWidth

\* autoDetectTileSize has returned null: no size is accepted.
C11_WitnessNull ==
  /\ "autoDetectTileSize" \in calls
  /\ autoDetected = <<>>
  /\ image.width >= 64

\* The raster is a sheet of opaque tiles with transparent 2-pixel gutters
\* every 32 pixels in both axes, at least 2 tiles per axis.
IsGutterSheet ==
  /\ image.width >= 64
  /\ image.height >= 64
  /\ \E g \in GutterPhases : image = GutterRaster(image.width, image.height, g)

\* C12: auto-detect on any raster whose tiles are opaque and separated by
\* fully transparent 2px gutters every 32px in both axes (from 64x64 upward)
\* returns {tileWidth: 32, tileHeight: 32, margin: 0, spacing: 0, offsetX: 0,
\* offsetY: 0}.  On a 64x64 sheet the single internal line of each axis
\* cannot reach 0.7 * 2 lines and the result is null.
C12_GutterSheetDetects32 ==
  ("autoDetectTileSize" \in calls /\ IsGutterSheet) =>
    autoDetected = << SquareTiles(32) >>

\* A gutter sheet on which auto-detect does return 32x32.
C12_Detects32OnLargerSheet ==
  /\ "autoDetectTileSize" \in calls
  /\ IsGutterSheet
  /\ autoDetected = << SquareTiles(32) >>

(***************************************************************************)
(* Claims about the archive.                                               *)
(***************************************************************************)
DigitChars == {"0", "1", "2", "3", "4", "5", "6", "7", "8", "9"}

DigitValue(ch) ==
  CASE ch = "0" -> 0 [] ch = "1" -> 1 [] ch = "2" -> 2 [] ch = "3" -> 3 [] ch = "4" -> 4
    [] ch = "5" -> 5 [] ch = "6" -> 6 [] ch = "7" -> 7 [] ch = "8" -> 8 [] ch = "9" -> 9

\* The number a string of one or two digits denotes.
ParseDecimal(str) ==
  IF Len(str) = 1 THEN DigitValue(str[1])
  ELSE 10 * DigitValue(str[1]) + DigitValue(str[2])

\* The decimal numeral of n in 0 .. 99: the digit string without a leading
\* zero that denotes n.
Numeral(n) ==
  CHOOSE str \in [1 .. 1 -> DigitChars] \cup [1 .. 2 -> DigitChars] :
    /\ ParseDecimal(str) = n
    /\ Len(str) = 2 => str[1] # "0"

\* C13: generateFilename maps a tile (row r, col c, index i) to "r_c.png"
\* for pattern row_col, "i.png" for pattern index and "<customPrefix>r_c.png"
\* for pattern custom; (row 1, col 2, index 5) gives "1_2.png", "5.png" and
\* "<prefix>1_2.png".
C13_FilenameByPattern ==
  "generateFilename" \in calls =>
    LET t == tiles[1]
        rc == Numeral(t.row) \o <<"_">> \o Numeral(t.col) \o <<".", "p", "n", "g">>
    IN /\ exportSettings.namingPattern = "row_col" => filename = rc
       /\ exportSettings.namingPattern = "index" =>
            filename = Numeral(t.index) \o <<".", "p", "n", "g">>
       /\ exportSettings.namingPattern = "custom" =>
            filename = exportSettings.customPrefix \o rc
       /\ (t.row = 1 /\ t.col = 2 /\ t.index = 5) =>
            /\ exportSettings.namingPattern = "row_col" =>
                 filename = <<"1", "_", "2", ".", "p", "n", "g">>
            /\ exportSettings.namingPattern = "index" =>
                 filename = <<"5", ".", "p", "n", "g">>
            /\ exportSettings.namingPattern = "custom" =>
                 filename = exportSettings.customPrefix \o <<"1", "_", "2", ".", "p", "n", "g">>

\* The tile (row 1, col 2, index 5) has been named under pattern custom with
\* a prefix that ends in a digit.
C13_Witness ==
  /\ "generateFilename" \in calls
  /\ tiles[1].row = 1 /\ tiles[1].col = 2 /\ tiles[1].index = 5
  /\ exportSettings.namingPattern = "custom"
  /\ exportSettings.customPrefix = <<"s", "1">>
  /\ filename = <<"s", "1", "1", "_", "2", ".", "p", "n", "g">>

(***************************************************************************)
(* Claims about the contact sheet.                                         *)
(***************************************************************************)
\* The positions in tiles of the non-empty tiles, in input order.
NonEmptyPositions == {k \in 1 .. Len(tiles) : ~tiles[k].isEmpty}

\* The position in tiles of the k-th non-empty tile, k counted from 0.
NthNonEmpty(k) ==
  CHOOSE p \in NonEmptyPositions : Cardinality({q \in NonEmptyPositions : q < p}) = k

\* The least number of rows of cols cells that hold n tiles.
RowsNeeded(n, cols) == CHOOSE q \in 0 .. n : q * cols >= n /\ \A u \in 0 .. (q - 1) : u * cols < n

Disjoint(a, b) ==
  \/ a.x + a.width <= b.x \/ b.x + b.width <= a.x
  \/ a.y + a.height <= b.y \/ b.y + b.height <= a.y

\* C20: createContactSheet(tiles, columns) ignores tiles with isEmpty = true;
\* with n >= 1 non-empty tiles the sheet is columns * maxTileWidth wide and
\* ceil(n / columns) * maxTileHeight high and the k-th non-empty tile
\* (0-based, input order) is drawn with its top-left corner at
\* ((k mod columns) * maxTileWidth, floor(k / columns) * maxTileHeight), so
\* every tile lies inside the sheet and no two tiles overlap; with n = 0 the
\* sheet is 1x1.
C20_ContactSheetLayout ==
  "createContactSheet" \in calls =>
    LET sheet == contactSheet[1]
        n == Cardinality(NonEmptyPositions)
        maxW == MaxOf({tiles[p].canvas.width : p \in NonEmptyPositions})
        maxH == MaxOf({tiles[p].canvas.height : p \in NonEmptyPositions})
    IN IF n = 0 THEN sheet.width = 1 /\ sheet.height = 1 /\ sheet.placed = <<>>
       ELSE /\ sheet.width = columns * maxW
            /\ sheet.height = RowsNeeded(n, columns) * maxH
            /\ Len(sheet.placed) = n
            /\ \A k \in 0 .. (n - 1) :
                  LET r == sheet.placed[k + 1]
                      tile == tiles[NthNonEmpty(k)]
                  IN /\ r.index = tile.index
                     /\ r.width = tile.canvas.width /\ r.height = tile.canvas.height
                     /\ r.x = (k % columns) * maxW
                     /\ r.y = (k \div columns) * maxH
                     /\ r.x >= 0 /\ r.y >= 0
                     /\ r.x + r.width <= sheet.width
                     /\ r.y + r.height <= sheet.height
            /\ \A j, k \in 1 .. n : j # k => Disjoint(sheet.placed[j], sheet.placed[k])

\* A sheet of more than one row whose tiles differ in size, laid out from tiles
\* of which one was empty.
C20_Witness ==
  /\ "createContactSheet" \in calls
  /\ Cardinality(NonEmptyPositions) = 3
  /\ \E k \in 1 .. Len(tiles) : tiles[k].isEmpty
  /\ columns = 2
  /\ \E p, q \in NonEmptyPositions : tiles[p].canvas.width < tiles[q].canvas.width
  /\ contactSheet[1].placed[3].y > 0

\* No tile is left after the filter: the sheet is 1x1.
C20_WitnessEmpty ==
  /\ "createContactSheet" \in calls
  /\ Len(tiles) >= 1
  /\ NonEmptyPositions = {}
  /\ contactSheet[1].width = 1

\* The tiles exportTiles was given that it has to export.
Exported == {k \in 1 .. Len(tiles) : ~(exportSettings.skipTransparent /\ tiles[k].isEmpty)}

\* C14: for tiles produced by sliceSprite with the layout from calculateGrid,
\* exportTiles puts into tiles/ exactly one file per exported tile (all tiles
\* when skipTransparent is false, only tiles with isEmpty = false when it is
\* true), with pairwise distinct file names under each of the three naming
\* patterns, and meta.json records totalTiles = number of input tiles,
\* exportedTiles = number of tile files written and skippedTiles =
\* totalTiles - exportedTiles.
C14_OneFilePerExportedTile ==
  pc \in {"zipGenerate", "zipDone"} =>
    /\ Len(zip.tiles) = Cardinality(Exported)
    /\ \A i, j \in 1 .. Len(zip.tiles) : i # j => zip.tiles[i].name # zip.tiles[j].name
    /\ \A k \in Exported :
          \E i \in 1 .. Len(zip.tiles) :
            /\ zip.tiles[i].name = generateFilename(tiles[k], exportSettings)
            /\ zip.tiles[i].data = tiles[k].canvas
    /\ zip.meta[1].result.totalTiles = Len(tiles)
    /\ zip.meta[1].result.exportedTiles = Len(zip.tiles)
    /\ zip.meta[1].result.skippedTiles = Len(tiles) - Len(zip.tiles)

\* An archive of a sheet of several rows, written under pattern index with
\* skipTransparent on, that left an empty tile out.
C14_Witness ==
  /\ pc = "zipDone"
  /\ exportSettings.namingPattern = "index"
  /\ exportSettings.skipTransparent
  /\ gridInfo.rows >= 2 /\ gridInfo.cols >= 2
  /\ Len(zip.tiles) >= 2
  /\ Len(zip.tiles) < Len(tiles)

\* C16: every progress event emitted by ZipExporter.exportTiles satisfies
\* 1 <= current <= total and percentage == current/total*100, and the final
\* event (after meta.json) has current == total, for every combination of
\* the contactSheet argument being present or absent and includeContactSheet
\* being true or false.  With a contact sheet present and includeContactSheet
\* false, total counts a sheet that is never added.  The events before
\* exportTiles' own are the Len(tiles) events of the slicing.
C16_ZipProgressEvents ==
  pc \in {"zipLoop", "zipMeta", "zipGenerate", "zipDone", "zipFailed"} =>
    /\ \A i \in (Len(tiles) + 1) .. Len(progress) :
          /\ 1 <= progress[i].current
          /\ progress[i].current <= progress[i].total
          /\ progress[i].percentage.num * progress[i].total =
               progress[i].current * 100 * progress[i].percentage.den
    /\ zip.meta # <<>> => progress[Len(progress)].current = progress[Len(progress)].total

\* Runs whose final event does have current = total: no sheet argument, or
\* a sheet that is included.
C16_HoldsWhenSheetIsAdded ==
  /\ pc = "zipDone"
  /\ contactSheet # <<>>
  /\ exportSettings.includeContactSheet
  /\ progress[Len(progress)].current = progress[Len(progress)].total

(***************************************************************************)
(* Claims about an export run of the UI.                                   *)
(***************************************************************************)
\* The event's percentage is 100.
IsHundred(event) == event.percentage.num = 100 * event.percentage.den

\* C15: across one export run (tile extraction followed by archive writing,
\* both reporting to the same progress callback), no progress event carries
\* percentage 100 before meta.json has been added to the archive; 100 is
\* reported only by the event that follows the metadata file.  The last
\* event of the extraction has current = total, hence percentage 100.
C15_HundredOnlyAfterMeta ==
  \A i \in 1 .. Len(progress) :
    IsHundred(progress[i]) => (zip.meta # <<>> /\ i = Len(progress))

\* The run's last event, sent after meta.json, does carry 100.
C15_HundredAfterMeta ==
  /\ pc = "zipGenerate"
  /\ zip.meta # <<>>
  /\ IsHundred(progress[Len(progress)])

\* C17: starting an export while validateSettings reports at least one
\* violation, or while no image is loaded, performs no processing:
\* sliceSprite, createContactSheet and ZipExporter.exportTiles are never
\* invoked for that request, an error status is shown, and the export button
\* state is left unchanged.
C17_RefusedExportDoesNothing ==
  [][ (/\ UiExportTiles
       /\ \/ currentImage = NullImage
          \/ validateSettings(currentSettings, currentImageMetadata) # <<>>)
      => /\ calls' \cap {"sliceSprite", "createContactSheet", "exportTiles"} = {}
         /\ pc' = "idle"
         /\ tiles' = tiles
         /\ progress' = progress
         /\ zip' = zip
         /\ status'.type = "error"
         /\ exportBtn' = exportBtn
         /\ progressContainer' = progressContainer ]_vars

\* An export was requested with an image loaded and settings that do not
\* validate, and was refused.
C17_Witness ==
  /\ status = showStatus("Please fix validation errors before exporting", "error")
  /\ currentImage # NullImage
  /\ validateSettings(currentSettings, currentImageMetadata) # <<>>
  /\ pc = "idle"
  /\ calls = {}
  /\ ~exportBtn.disabled

\* An export was requested with no image loaded, and was refused.
C17_WitnessNoImage ==
  /\ status = showStatus("Please load an image first", "error")
  /\ currentImage = NullImage
  /\ pc = "idle"
  /\ calls = {}

ExportFailed == showStatus("Export failed: Failed to convert canvas to blob", "error")

\* C18: if encoding any tile (or the contact sheet) to PNG fails during
\* exportTiles, the whole run aborts: no archive is generated or downloaded
\* (saveAs is never called), the failure is surfaced as an 'Export failed'
\* status, and the UI returns to idle with the export button re-enabled and
\* the progress display hidden.
C18_EncodingFailureAborts ==
  /\ [](pc = "zipFailed" => ("saveAs" \notin calls /\ zip.meta = <<>>))
  /\ [][(pc = "zipFailed" /\ pc' # "zipFailed")
          => /\ status' = ExportFailed
             /\ pc' = "idle"
             /\ "saveAs" \notin calls' ]_vars
  /\ [](status = ExportFailed
          => /\ pc = "idle"
             /\ "saveAs" \notin calls
             /\ ~exportBtn.disabled
             /\ exportBtn.textContent = "Export ZIP"
             /\ progressContainer = "none")

\* An export whose contact sheet could not be encoded, after its tiles had
\* been, has ended.
C18_Witness ==
  /\ status = ExportFailed
  /\ "createContactSheet" \in calls
  /\ "exportTiles" \in calls
  /\ pc = "idle"

\* The encoding of a tile has just failed.
C18_WitnessTile ==
  /\ pc = "zipFailed"
  /\ zipCurrent < Len(validTiles)
  /\ zipCurrent >= 1

\* C19: when loading a file fails (its type is not image/png, or the image
\* fails to decode), handleFile leaves currentImage and currentImageMetadata
\* unchanged, does not enable the controls, and reports an error status; no
\* slicing is started.
C19_FailedLoadChangesNothing ==
  [][ \A file \in UiFiles :
        (HandleFile(file) /\ (file.type # ImagePng \/ ~file.decodes))
        => /\ currentImage' = currentImage
           /\ currentImageMetadata' = currentImageMetadata
           /\ controlsDisabled' = controlsDisabled
           /\ exportBtn' = exportBtn
           /\ status'.type = "error"
           /\ pc' = pc
           /\ calls' = calls
           /\ tiles' = tiles ]_vars

\* A file that is not a PNG was refused while an image was loaded, which is
\* kept.
C19_Witness ==
  /\ status = showStatus("Error: Only PNG files are supported", "error")
  /\ currentImage # NullImage
  /\ currentImageMetadata = getImageMetadata(currentImage)

\* A PNG that does not decode was refused before any image was loaded: the
\* controls stay disabled.
C19_WitnessDecode ==
  /\ status = showStatus("Error: Failed to load image", "error")
  /\ currentImage = NullImage
  /\ controlsDisabled

(***************************************************************************)
(* Claims about an export run and the events that interleave with it.      *)
(***************************************************************************)

\* C21: within one export run, the tile settings and the raster metadata
\* recorded in meta.json are the ones the run's tiles were extracted with,
\* under every interleaving of the run's suspensions with user events that
\* edit a settings input or load another image.  The run reads
\* this.currentSettings and this.currentImageMetadata again when it calls
\* ZipExporter.exportTiles, after sliceSprite's suspensions.
C21_MetaRecordsExtractionInputs ==
  (zip.meta # <<>> /\ sliceArgs # <<>>) =>
     /\ zip.meta[1].settings = sliceArgs[1].settings
     /\ zip.meta[1].source = getImageMetadata(sliceArgs[1].image)

\* The claim holds of the runs that were not suspended while slicing: a run
\* of fewer than ten tiles.
C21_HoldsWithoutSliceSuspension ==
  (zip.meta # <<>> /\ sliceArgs # <<>> /\ Len(tiles) < 10) =>
     /\ zip.meta[1].settings = sliceArgs[1].settings
     /\ zip.meta[1].source = getImageMetadata(sliceArgs[1].image)

\* A run of a few tiles has written meta.json after the settings were edited
\* while it was archiving.
C21_WitnessShortRun ==
  /\ zip.meta # <<>>
  /\ sliceArgs # <<>>
  /\ Len(tiles) \in 1 .. 9
  /\ currentSettings # sliceArgs[1].settings

\* An export run has passed validation and has not ended.
RunInFlight ==
  pc \in {"loop", "returned", "zipLoop", "zipMeta", "zipGenerate", "zipDone", "zipFailed"}

\* C22: at most one export run is in flight at any time: from the moment a
\* run passes validation until it finishes or fails, the export button stays
\* disabled, under every interleaving with the other UI events (settings
\* edits, loading a file, which calls enableControls(true)); it is
\* re-enabled only when that run ends.  A click on the enabled button would
\* enter UI.exportTiles again (ui.ts:104-105).
C22_ButtonDisabledWhileRunInFlight == RunInFlight => exportBtn.disabled

\* The claim holds of a page whose export button is not one of the controls
\* enableControls writes to.
C22_HoldsOutsideControls ==
  (RunInFlight /\ ~exportBtn.inControls) => exportBtn.disabled

\* A file was loaded during a run on such a page, and the button is still
\* disabled.
C22_WitnessOutsideControls ==
  /\ RunInFlight
  /\ ~exportBtn.inControls
  /\ exportBtn.disabled
  /\ sliceArgs # <<>>
  /\ currentImage # sliceArgs[1].image

(***************************************************************************)
(* Claims about the suspensions of the two loops.                          *)
(***************************************************************************)
\* The counts at which the loop has suspended on its timer.
YieldCounts(loop) == {yields[i].current : i \in {j \in 1 .. Len(yields) : yields[j].loop = loop}}

\* Of the units 1 .. done, no more than every consecutive units were
\* processed without a suspension: a suspension follows the n-th unit exactly
\* when n is a multiple of every.
SuspendsEvery(loop, every, done) ==
  /\ \A n \in 1 .. done : (n \in YieldCounts(loop)) <=> (n % every = 0)
  /\ \A n \in YieldCounts(loop) : n <= done
  /\ \A first \in 1 .. (done - every) :
        \E n \in YieldCounts(loop) : first <= n /\ n < first + every

\* exportTiles has left its loop over validTiles without a failure.
ZipLoopOver ==
  \/ pc \in {"zipMeta", "zipGenerate", "zipDone"}
  \/ pc = "zipLoop" /\ zipCurrent >= Len(validTiles)

C25_Suspensions ==
  /\ pc \in {"loop", "returned"} => SuspendsEvery("sliceSprite", 10, current)
  /\ pc \in {"zipLoop", "zipMeta", "zipGenerate", "zipDone", "zipFailed"} =>
        /\ SuspendsEvery("sliceSprite", 10, Len(tiles))
        /\ SuspendsEvery("exportTiles", 5, Min(zipCurrent, Len(validTiles)))

C25_EveryUnitOnce ==
  /\ pc = "returned" =>
        /\ Len(tiles) = gridInfo.rows * gridInfo.cols
        /\ \A r \in 0 .. (gridInfo.rows - 1), c \in 0 .. (gridInfo.cols - 1) :
              Cardinality({k \in 1 .. Len(tiles) : tiles[k].row = r /\ tiles[k].col = c}) = 1
  /\ ZipLoopOver =>
        /\ Len(zip.tiles) = Len(validTiles)
        /\ \A k \in 1 .. Len(validTiles) :
              /\ zip.tiles[k].name = generateFilename(validTiles[k], exportSettings)
              /\ zip.tiles[k].data = validTiles[k].canvas
              /\ progress[Len(tiles) + k].current = k

\* C25: both long-running loops suspend periodically: sliceSprite yields to
\* the host after every 10th extracted tile and exportTiles after every 5th
\* archived tile, so never more than 10 (respectively 5) consecutive units
\* are processed without a suspension, and each loop still terminates having
\* processed every unit exactly once: sliceSprite returns one tile per cell,
\* and exportTiles settles with one file per tile to export, unless an
\* encoding rejects and ends it.
C25_LoopsSuspendAndTerminate ==
  /\ []C25_Suspensions
  /\ []C25_EveryUnitOnce
  /\ (pc = "loop") ~> (pc = "returned")
  /\ (pc = "zipLoop") ~> (pc \in {"zipDone", "zipFailed"})

\* C25 witness: a run over 21 tiles has been archived after suspending twice
\* while slicing and four times while archiving.
C25_Witness ==
  /\ pc = "zipDone"
  /\ Len(tiles) = 21
  /\ Len(zip.tiles) = 21
  /\ YieldCounts("sliceSprite") = {10, 20}
  /\ YieldCounts("exportTiles") = {5, 10, 15, 20}
====
